---- MODULE Spec2Model ----
(***************************************************************************)
(* A model of M3U8-Batch-Hunter: the capture fallback chain and the        *)
(* per-page processing of app.py (process_single_url), the two lightweight *)
(* observers (m3u8_capture_playwright.py, m3u8_capture_selenium_cdp.py)    *)
(* and the legacy selenium-wire sessions (poll_m3u8_optimized, poll_m3u8). *)
(*                                                                         *)
(* Four state machines share the variables:                                *)
(*   Spec         process_single_url, one step per blocking call           *)
(*   SpecSession  one capture session of one backend, time in ticks of     *)
(*                100 ms; the legacy session with its click thread         *)
(*   SpecUtils    one call of a pure helper of app.py or of                *)
(*                m3u8_sniffer_utils.py on an input of the model           *)
(*   SpecBatch    run_batch: the workers of the thread pool and the        *)
(*                generator that drains their queue                        *)
(***************************************************************************)
EXTENDS Integers, Sequences, FiniteSets, TLC

VARIABLES
    \* ---- process_single_url (app.py 734-1036) ----
    pc,                  \* position in process_single_url
    PLAYWRIGHT_ENABLED,  \* app.py 26/28
    SELENIUM_CDP_ENABLED,\* app.py 37/39
    started,             \* the backends started so far, in order
    outcome,             \* per backend: "none" | "empty" | "found" | "raised"
    found_m3u8,          \* app.py 755: the set of captured URLs
    master_manifest_url, \* app.py 756: the capture stage's master URL
    master,              \* app.py 864: the master the parser uses
    variants,            \* app.py 873-882
    vi,                  \* index of the variant the loop of 887 is at
    analysed,            \* per variant of the list so far: "ok" | "failed"
    rows,                \* app.py 885
    dur_by_entry,        \* app.py 886: sequence of <<entryId, seconds>>
    result,              \* "none" | "ok" | "error" | "exception"
    errorAt,             \* which return/raise ended the call
    \* ---- one observer session (capture_m3u8_via_playwright / _selenium_cdp) ----
    backend,             \* "pw" | "cdp" | "idle"
    opc,                 \* position in the capture function
    own_manager,         \* playwright.py 252-258, selenium_cdp.py 196-202
    browserUp,           \* the browser/driver of the manager is running
    now,                 \* time.time(), in ticks of 100 ms since the capture call
    navStart,            \* the time page.goto / driver.get was called
    elapsed,             \* playwright.py 369 (ticks)
    start_time,          \* selenium_cdp.py 226 (-1: not yet set)
    master_found_time,   \* -1 for None
    found_m3u8s,         \* the list the session returns
    perfLog,             \* selenium_cdp.py 232: the log entries not yet read
    nResponses,          \* how many responses the pages have produced
    occurred,            \* history: cleaned URLs of the manifest responses
    waitEnd,             \* history: the time the wait loop was left (-1: not yet)
    waitSteps,           \* history: how many sleeps the wait loop has made
    held,                \* the handles the manager holds (self.playwright, self.browser, self.driver)
    page,                \* which URL of the caller's list the session is for (1, 2, ...)
    \* ---- one legacy selenium-wire session (poll_m3u8_optimized / poll_m3u8) ----
    session,             \* "opt" | "poll" | "idle"
    mpc,                 \* position of the session's foreground
    tpc,                 \* position of the click thread (app.py 485-496)
    stop_clicking,       \* app.py 483
    fgLeft,              \* ticks left of the foreground's wait, sleep or join
    clickLeft,           \* ticks the running click_once_everywhere still needs
    sleepLeft,           \* ticks left of the thread's time.sleep(0.3)
    requests,            \* driver.requests: the recorded URLs with a response
    found,               \* app.py 481, 565
    t_first,             \* app.py 566 (-1 for None)
    poll_master_time,    \* app.py 568 (-1 for None)
    pollNow,             \* time.time() in poll_m3u8, ticks of 100 ms since `start`
    driverUp,            \* the caller has not yet quit the driver
    fgResolved,          \* history: the wait for the master pattern has ended
    roundsAfterStop,     \* history: click rounds begun after the stop signal
    clicksAfterReturn,   \* history: click steps taken after the session returned
    pollSteps,           \* history: how many sleeps the loop of poll_m3u8 has made
    last_master,         \* the last request of driver.requests that passes app.py 536
    master_request,      \* app.py 482: the URL of that request object (NoUrl: None)
    poll_master_url      \* app.py 545: the master_manifest_url returned (NoUrl: None)

\* The pure functions of m3u8_sniffer_utils.py: position of the caller, the
\* list handed to filter_and_prioritize_m3u8s and to select_best_variant, and
\* what each returned.
VARIABLES upc, m3u8_list, prioritized, best

\* analyze_variant (app.py 318-346): the lines of the fetched playlist and the
\* dict returned for them.
VARIABLES variant_text, analysis

\* One call of another pure helper of app.py or m3u8_sniffer_utils.py: the
\* function called with its argument ([fn |-> name, x |-> argument]) and what
\* the call returned or raised.
VARIABLES arg, ret

\* run_batch (app.py 1058-1120): the request's concurrency, how many futures
\* are submitted, each worker's position, the queue, the generator's position
\* and `alive`, and the events put and yielded so far.
VARIABLES concurrency, futures, wpc, q_events, gpc, alive, puts, emitted

procVars == <<pc, PLAYWRIGHT_ENABLED, SELENIUM_CDP_ENABLED, started, outcome,
              found_m3u8, master_manifest_url, master, variants, vi, analysed,
              rows, dur_by_entry, result, errorAt>>
obsVars  == <<backend, opc, own_manager, browserUp, now, navStart, elapsed,
              start_time, master_found_time, found_m3u8s, perfLog, nResponses,
              occurred, waitEnd, waitSteps, held, page>>
pollVars == <<session, mpc, tpc, stop_clicking, fgLeft, clickLeft, sleepLeft,
              requests, found, t_first, poll_master_time, pollNow, driverUp,
              fgResolved, roundsAfterStop, clicksAfterReturn, pollSteps,
              last_master, master_request, poll_master_url>>
utilVars == <<upc, m3u8_list, prioritized, best, variant_text, analysis, arg, ret>>
batchVars == <<concurrency, futures, wpc, q_events, gpc, alive, puts, emitted>>
vars == <<procVars, obsVars, pollVars, utilVars, batchVars>>

(***************************************************************************)
(* URLs.  A URL is a record of its host, its path segments, its query      *)
(* (key/value pairs, in order) and its fragment; the substring and regex   *)
(* tests of the code are made on these parts.                              *)
(***************************************************************************)
Url(h, p, q) == [host |-> h, path |-> p, query |-> q, frag |-> ""]
NoUrl == Url("", <<>>, <<>>)

UMasterSec == Url("cdnapisec.kaltura.com", <<"p", "playManifest", "entryId", "E1", "a.m3u8">>, <<>>)
UMasterCdn == Url("cdn.kaltura.com", <<"p", "playManifest", "entryId", "E2", "a.m3u8">>, <<>>)
UFlavor1   == Url("cfvod.kaltura.com", <<"entryId", "E1", "v", "flavorId", "F1", "index.m3u8">>, <<>>)
UFlavor2   == Url("cfvod.kaltura.com", <<"entryId", "E1", "v", "flavorId", "F2", "index.m3u8">>, <<>>)
UFlavor3   == Url("cfvod.kaltura.com", <<"entryId", "E2", "v", "flavorId", "F3", "index.m3u8">>, <<>>)
UPlain     == Url("example.com", <<"master.m3u8">>, <<>>)
\* a flavor playlist whose URL carries a query, and a play manifest on the
\* cfvod host
UFlavorSigned == Url("cfvod.kaltura.com", <<"entryId", "E1", "v", "flavorId", "F1", "index.m3u8">>, << <<"t", "1">> >>)
UMasterVod == Url("cfvod.kaltura.com", <<"p", "playManifest", "entryId", "E1", "a.m3u8">>, <<>>)

\* The URLs a page of the model can make the browser request.
CaptureUrls == {UMasterSec, UMasterCdn, UMasterVod, UFlavor1, UFlavor3, UFlavorSigned}

Last(s) == s[Len(s)]
Front(s) == SubSeq(s, 1, Len(s) - 1)
Range(s) == {s[i] : i \in 1..Len(s)}

\* str.lower() on the tokens URLs are made of.
Lower(s) ==
    CASE s = "playManifest" -> "playmanifest"
      [] s = "entryId" -> "entryid"
      [] s = "flavorId" -> "flavorid"
      [] OTHER -> s

\* "kaltura.com" in u
HasKalturaCom(u) == u.host \in {"cdnapisec.kaltura.com", "cfvod.kaltura.com", "cdn.kaltura.com"}
\* "cdnapisec.kaltura.com" in u or "cfvod.kaltura.com" in u
HasKalturaCdn(u) == u.host \in {"cdnapisec.kaltura.com", "cfvod.kaltura.com"}
\* "playmanifest" in u.lower()
HasPlaymanifestLower(u) == \E i \in 1..Len(u.path) : Lower(u.path[i]) = "playmanifest"
\* the file names of the model that end in ".m3u8"
M3u8Files == {"a.m3u8", "index.m3u8", "master.m3u8", "manifest.m3u8", "playlist.m3u8", "v720.m3u8"}
\* u.lower().endswith(".m3u8")
EndsWithM3u8(u) ==
    /\ u.frag = ""
    /\ u.query = <<>>
    /\ Len(u.path) > 0
    /\ Last(u.path) \in M3u8Files

\* The order of sorted() on the URLs of CaptureUrls (their order as strings).
UrlRank(u) ==
    CASE u = UMasterCdn -> 1
      [] u = UMasterSec -> 2
      [] u = UFlavor1 -> 3
      [] u = UFlavorSigned -> 4
      [] u = UFlavor2 -> 5
      [] u = UFlavor3 -> 6
      [] u = UMasterVod -> 7
      [] OTHER -> 8

RECURSIVE SortedSeq(_)
SortedSeq(S) ==
    IF S = {} THEN <<>>
    ELSE LET m == CHOOSE x \in S : \A y \in S : UrlRank(x) <= UrlRank(y)
         IN <<m>> \o SortedSeq(S \ {m})

(***************************************************************************)
(* m3u8_sniffer_utils.py: the classification used at capture time          *)
(***************************************************************************)
\* 'kaltura' in url_lower
HasKalturaLower(u) == HasKalturaCom(u)
\* 'entryid' in url_lower, 'flavorid' in url_lower: the text can stand in the
\* path or in the query
HasSegLower(u, seg) ==
    \/ \E i \in 1..Len(u.path) : Lower(u.path[i]) = seg
    \/ \E i \in 1..Len(u.query) : Lower(u.query[i][1]) = seg

\* A heuristic without the rule of utils 352.
DetectByNameOnly(u) ==
    \/ HasPlaymanifestLower(u) /\ HasKalturaLower(u)
    \/ \E i \in 1..Len(u.path) : u.path[i] \in {"master.m3u8", "manifest.m3u8", "playlist.m3u8"}

detect_master_vs_variant(u) ==
    \/ HasPlaymanifestLower(u) /\ HasKalturaLower(u)
    \/ \E i \in 1..Len(u.path) : u.path[i] \in {"master.m3u8", "manifest.m3u8", "playlist.m3u8"}
    \/ HasSegLower(u, "entryid") /\ ~HasSegLower(u, "flavorid")

\* The M3U8Info of a cleaned URL (the fields the callers read).
Info(u) == [url |-> u, is_master |-> detect_master_vs_variant(u)]

(***************************************************************************)
(* app.py: helpers of process_single_url                                   *)
(***************************************************************************)
\* re.search(r"/entryId/([^/]+)/.*?/flavorId/([^/]+)/", url): the entry id is
\* a whole segment, at least one segment lies between it and "flavorId", and
\* a "/" follows the flavor id.  "" stands for None.
ExtractIdsAt(p, i, j) ==
    /\ p[i] = "entryId" /\ p[i + 1] # ""
    /\ j >= i + 3 /\ j + 2 <= Len(p)
    /\ p[j] = "flavorId" /\ p[j + 1] # ""

extract_ids(u) ==
    LET p == u.path
        I == {i \in 1..Len(p) : \E j \in 1..Len(p) : ExtractIdsAt(p, i, j)}
    IN IF I = {} THEN <<"", "">>
       ELSE LET i == CHOOSE x \in I : \A y \in I : x <= y
                J == {j \in 1..Len(p) : ExtractIdsAt(p, i, j)}
                j == CHOOSE x \in J : \A y \in J : x <= y
            IN <<p[i + 1], p[j + 1]>>

\* app.py 867: the test that makes a captured URL the master to parse
IsProcessMaster(u) == HasKalturaCdn(u) /\ HasPlaymanifestLower(u)
\* app.py 880: the test that makes a captured URL a pseudo-variant
IsDirectVariant(u) == EndsWithM3u8(u) /\ HasKalturaCom(u)

\* app.py 882
PseudoVariant(u) == [playlist |-> u, bandwidth |-> 0, resolution |-> ""]

RECURSIVE DirectVariants(_)
DirectVariants(us) ==
    IF us = <<>> THEN <<>>
    ELSE (IF IsDirectVariant(us[1]) THEN <<PseudoVariant(us[1])>> ELSE <<>>)
         \o DirectVariants(Tail(us))

(***************************************************************************)
(* list_variants_from_master (app.py 298-316).  A master text is a         *)
(* sequence of stripped lines: a stream-inf tag with its attributes, a URI *)
(* line, a blank line or another tag.                                      *)
(***************************************************************************)
InfLine(avg, bw, res) == [t |-> "inf", avg |-> avg, bw |-> bw, res |-> res, uri |-> NoUrl, rel |-> ""]
AbsLine(u) == [t |-> "uri", avg |-> -1, bw |-> -1, res |-> "", uri |-> u, rel |-> ""]
RelLine(f) == [t |-> "uri", avg |-> -1, bw |-> -1, res |-> "", uri |-> NoUrl, rel |-> f]
BlankLine  == [t |-> "blank", avg |-> -1, bw |-> -1, res |-> "", uri |-> NoUrl, rel |-> ""]
TagLine    == [t |-> "tag", avg |-> -1, bw |-> -1, res |-> "", uri |-> NoUrl, rel |-> ""]

\* urljoin(master_url, line): an absolute URL replaces the base, a relative
\* file name replaces the last path segment, an empty line gives the base
\* (without fragment) and a line starting with "#" becomes its fragment.
urljoin(base, ln) ==
    CASE ln.t = "uri" /\ ln.rel = "" -> ln.uri
      [] ln.t = "uri" -> [base EXCEPT !.path = Front(base.path) \o <<ln.rel>>, !.query = <<>>, !.frag = ""]
      [] ln.t = "blank" -> [base EXCEPT !.frag = ""]
      [] OTHER -> [base EXCEPT !.frag = "#EXT"]

\* attrs.get("AVERAGE-BANDWIDTH") or attrs.get("BANDWIDTH") or "0", then int()
\* or 0.  -1: the attribute is absent or empty; 0: it is "0" or no integer.
DeclaredBandwidth(ln) == IF ln.avg # -1 THEN ln.avg ELSE IF ln.bw # -1 THEN ln.bw ELSE 0

RECURSIVE VariantsFrom(_, _, _)
VariantsFrom(master_url, lines, i) ==
    IF i > Len(lines) THEN <<>>
    ELSE (IF lines[i].t = "inf" /\ i + 1 <= Len(lines)
          THEN <<[playlist |-> urljoin(master_url, lines[i + 1]),
                  bandwidth |-> DeclaredBandwidth(lines[i]),
                  resolution |-> lines[i].res]>>
          ELSE <<>>)
         \o VariantsFrom(master_url, lines, i + 1)

list_variants_from_master(master_url, text) == VariantsFrom(master_url, text, 1)

\* The master playlists a server of the model can answer with.
MasterTexts == {
    <<TagLine, InfLine(-1, 2000000, "1280x720"), AbsLine(UFlavor1),
               InfLine(-1, 5000000, "1920x1080"), AbsLine(UFlavor2)>>,
    <<TagLine, InfLine(-1, 2000000, ""), AbsLine(UFlavor1),
               InfLine(-1, 2000000, ""), AbsLine(UFlavor3),
               InfLine(-1, -1, ""), RelLine("v720.m3u8")>>,
    <<TagLine, InfLine(5000000, 2000000, ""), BlankLine, AbsLine(UFlavor3)>>,
    <<TagLine, InfLine(-1, 2000000, "1280x720"), AbsLine(UFlavor1),
               InfLine(-1, 5000000, "1920x1080"), AbsLine(UFlavor3),
               InfLine(-1, 2000000, "1280x720"), AbsLine(UFlavor2)>>,
    <<TagLine>> }

\* What a successful analyze_variant can return for a playlist of the model
\* (app.py 341-346): a VOD of 600 s, an encrypted one of 30 s, a VOD without
\* segments (total 0.0) and a live playlist; total_seconds -1 stands for None.
Analyses == {
    [is_vod |-> TRUE,  total_seconds |-> 600, encrypted |-> FALSE],
    [is_vod |-> TRUE,  total_seconds |-> 30,  encrypted |-> TRUE],
    [is_vod |-> TRUE,  total_seconds |-> 0,   encrypted |-> FALSE],
    [is_vod |-> FALSE, total_seconds |-> -1,  encrypted |-> FALSE] }

\* What estimate_bitrate_mbps can return, in bits per second (-1: None).
Estimates == {-1, 1500000}

(***************************************************************************)
(* The capture stage of process_single_url                                 *)
(***************************************************************************)
MaxInfos == 2

RECURSIVE SeqsUpTo(_, _)
SeqsUpTo(S, n) ==
    IF n = 0 THEN {<<>>}
    ELSE LET shorter == SeqsUpTo(S, n - 1)
         IN shorter \cup {Append(s, x) : s \in {t \in shorter : Len(t) = n - 1}, x \in S}

NoDup(s) == \A i, j \in 1..Len(s) : i # j => s[i] # s[j]

\* The lists capture_m3u8_via_playwright can return (playwright.py 304: every
\* matching response is appended).
PlaywrightLists == SeqsUpTo(CaptureUrls, MaxInfos)
\* The lists capture_m3u8_via_selenium_cdp can return (selenium_cdp.py 274).
SeleniumCdpLists == {s \in SeqsUpTo(CaptureUrls, MaxInfos) : NoDup(s)}

\* app.py 222-228, 253-259: the first info flagged as master, or None
FirstMaster(infos) ==
    LET M == {i \in 1..Len(infos) : Info(infos[i]).is_master}
    IN IF M = {} THEN NoUrl ELSE infos[CHOOSE i \in M : \A k \in M : i <= k]

\* A chain that goes on to the next backend whatever a backend returned.
ChainFallsThrough(infos) == FALSE

\* app.py 216, 247: `if m3u8_infos:` ends the chain with a return
ChainReturns(infos) == infos # <<>>

\* app.py 772: `if not found_m3u8:` starts the selenium-wire backend
NeedsSeleniumWire(urls) == urls = {}

\* A chain without the except clauses: the failure of a backend leaves
\* process_single_url.
BackendFailurePropagates(b) == [pc |-> "done", result |-> "exception", errorAt |-> b]

\* What a failure inside a backend leads to: the except clauses of app.py
\* 233, 264 fall through to the next backend; the one of 830-838 returns an
\* error result.
AfterBackendFailure(b) ==
    CASE b = "pw"  -> [pc |-> "cdp", result |-> "none", errorAt |-> ""]
      [] b = "cdp" -> [pc |-> "wire", result |-> "none", errorAt |-> ""]
      [] OTHER     -> [pc |-> "done", result |-> "error", errorAt |-> "wire"]

Backends == {"pw", "cdp", "wire"}

ProcInit ==
    /\ pc = "pw"
    /\ PLAYWRIGHT_ENABLED \in BOOLEAN
    /\ SELENIUM_CDP_ENABLED \in BOOLEAN
    /\ started = <<>>
    /\ outcome = [b \in Backends |-> "none"]
    /\ found_m3u8 = {}
    /\ master_manifest_url = NoUrl
    /\ master = NoUrl
    /\ variants = <<>>
    /\ vi = 1
    /\ analysed = <<>>
    /\ rows = <<>>
    /\ dur_by_entry = <<>>
    /\ result = "none"
    /\ errorAt = ""

ProcIdle ==
    /\ pc = "idle"
    /\ PLAYWRIGHT_ENABLED = FALSE
    /\ SELENIUM_CDP_ENABLED = FALSE
    /\ started = <<>>
    /\ outcome = [b \in Backends |-> "none"]
    /\ found_m3u8 = {}
    /\ master_manifest_url = NoUrl
    /\ master = NoUrl
    /\ variants = <<>>
    /\ vi = 1
    /\ analysed = <<>>
    /\ rows = <<>>
    /\ dur_by_entry = <<>>
    /\ result = "none"
    /\ errorAt = ""

parseVars == <<master, variants, vi, analysed, rows, dur_by_entry>>
flagVars == <<PLAYWRIGHT_ENABLED, SELENIUM_CDP_ENABLED>>

\* A lightweight backend (b, at pc b) is started and fails, returns an empty
\* list or returns infos; nextPc is where the chain goes when nothing returned.
LightBackend(b, lists, nextPc) ==
    /\ pc = b
    /\ started' = Append(started, b)
    /\ \/ /\ outcome' = [outcome EXCEPT ![b] = "raised"]
          /\ pc' = AfterBackendFailure(b).pc
          /\ result' = AfterBackendFailure(b).result
          /\ errorAt' = AfterBackendFailure(b).errorAt
          /\ UNCHANGED <<found_m3u8, master_manifest_url>>
       \/ \E infos \in lists :
            /\ outcome' = [outcome EXCEPT ![b] = IF infos = <<>> THEN "empty" ELSE "found"]
            /\ IF ChainReturns(infos)
               THEN /\ found_m3u8' = Range(infos)
                    /\ master_manifest_url' = FirstMaster(infos)
                    /\ pc' = IF NeedsSeleniumWire(Range(infos)) THEN "wire" ELSE "parse"
                    /\ UNCHANGED <<result, errorAt>>
               ELSE /\ pc' = nextPc
                    /\ UNCHANGED <<found_m3u8, master_manifest_url, result, errorAt>>
    /\ UNCHANGED <<flagVars, parseVars>>

\* app.py 206-234
TryPlaywright ==
    /\ PLAYWRIGHT_ENABLED
    /\ LightBackend("pw", PlaywrightLists, "cdp")
    /\ UNCHANGED <<obsVars, pollVars, utilVars, batchVars>>

\* app.py 206: PLAYWRIGHT_ENABLED is false
SkipPlaywright ==
    /\ pc = "pw" /\ ~PLAYWRIGHT_ENABLED
    /\ pc' = "cdp"
    /\ UNCHANGED <<flagVars, started, outcome, found_m3u8, master_manifest_url, parseVars, result, errorAt>>
    /\ UNCHANGED <<obsVars, pollVars, utilVars, batchVars>>

\* app.py 237-265, then 269 and 764-772
TrySeleniumCdp ==
    /\ SELENIUM_CDP_ENABLED
    /\ LightBackend("cdp", SeleniumCdpLists, IF NeedsSeleniumWire(found_m3u8) THEN "wire" ELSE "parse")
    /\ UNCHANGED <<obsVars, pollVars, utilVars, batchVars>>

\* app.py 237: SELENIUM_CDP_ENABLED is false; 269 returns the empty set
SkipSeleniumCdp ==
    /\ pc = "cdp" /\ ~SELENIUM_CDP_ENABLED
    /\ pc' = IF NeedsSeleniumWire(found_m3u8) THEN "wire" ELSE "parse"
    /\ UNCHANGED <<flagVars, started, outcome, found_m3u8, master_manifest_url, parseVars, result, errorAt>>
    /\ UNCHANGED <<obsVars, pollVars, utilVars, batchVars>>

\* app.py 545-550: the first URL of the set, in its iteration order, that
\* names a Kaltura playmanifest
IsPollMaster(u) == HasKalturaCom(u) /\ HasPlaymanifestLower(u)
PollMasters(urls) ==
    IF \E u \in urls : IsPollMaster(u) THEN {u \in urls : IsPollMaster(u)} ELSE {NoUrl}

\* The sets of URLs a selenium-wire session can have seen
WireSets == {S \in SUBSET CaptureUrls : Cardinality(S) <= MaxInfos}

\* app.py 773-854: the selenium-wire backend
TrySeleniumWire ==
    /\ pc = "wire"
    /\ started' = Append(started, "wire")
    /\ \/ /\ outcome' = [outcome EXCEPT !["wire"] = "raised"]
          /\ pc' = AfterBackendFailure("wire").pc
          /\ result' = AfterBackendFailure("wire").result
          /\ errorAt' = AfterBackendFailure("wire").errorAt
          /\ UNCHANGED <<found_m3u8, master_manifest_url>>
       \/ \E urls \in WireSets : \E m \in PollMasters(urls) :
            /\ outcome' = [outcome EXCEPT !["wire"] = IF urls = {} THEN "empty" ELSE "found"]
            /\ found_m3u8' = urls
            /\ master_manifest_url' = m
            /\ pc' = "parse"
            /\ UNCHANGED <<result, errorAt>>
    /\ UNCHANGED <<flagVars, parseVars>>
    /\ UNCHANGED <<obsVars, pollVars, utilVars, batchVars>>

(***************************************************************************)
(* The parsing stage of process_single_url (app.py 856-935)                *)
(***************************************************************************)
captureVars == <<flagVars, started, outcome, found_m3u8, master_manifest_url>>

\* app.py 864-870: the first URL of the set, in its iteration order, that
\* passes the test; None when there is none
FindMaster ==
    /\ pc = "parse"
    /\ IF \E u \in found_m3u8 : IsProcessMaster(u)
       THEN \E u \in found_m3u8 : IsProcessMaster(u) /\ master' = u /\ pc' = "list"
       ELSE master' = NoUrl /\ pc' = "direct"
    /\ UNCHANGED <<captureVars, variants, vi, analysed, rows, dur_by_entry, result, errorAt>>
    /\ UNCHANGED <<obsVars, pollVars, utilVars, batchVars>>

\* What a failed fetch of the master leads to: app.py 873 calls
\* list_variants_from_master outside any try, so fetch_text's exception
\* (app.py 284-285) leaves process_single_url.
AfterMasterFailure == [pc |-> "done", result |-> "exception", errorAt |-> "master"]

\* app.py 873
ListVariants ==
    /\ pc = "list"
    /\ \/ /\ pc' = AfterMasterFailure.pc
          /\ result' = AfterMasterFailure.result
          /\ errorAt' = AfterMasterFailure.errorAt
          /\ UNCHANGED variants
       \/ \E text \in MasterTexts :
            /\ variants' = list_variants_from_master(master, text)
            /\ pc' = "direct"
            /\ UNCHANGED <<result, errorAt>>
    /\ UNCHANGED <<captureVars, master, vi, analysed, rows, dur_by_entry>>
    /\ UNCHANGED <<obsVars, pollVars, utilVars, batchVars>>

\* app.py 876-882
DirectFallback ==
    /\ pc = "direct"
    /\ variants' = IF variants = <<>> THEN DirectVariants(SortedSeq(found_m3u8)) ELSE variants
    /\ pc' = "analyze"
    /\ UNCHANGED <<captureVars, master, vi, analysed, rows, dur_by_entry, result, errorAt>>
    /\ UNCHANGED <<obsVars, pollVars, utilVars, batchVars>>

\* A loop that a failed variant ends (`break` in the place of `continue`).
VariantFailureBreaks(i) == Len(variants) + 1

\* app.py 890-893: `continue` goes on with the next variant
AfterVariantFailure(i) == i + 1

\* app.py 899-901
DurUpdate(d, entryId, secs) ==
    IF \E k \in 1..Len(d) : d[k][1] = entryId
    THEN [k \in 1..Len(d) |-> IF d[k][1] = entryId /\ secs > d[k][2] THEN <<entryId, secs>> ELSE d[k]]
    ELSE Append(d, <<entryId, IF secs > 0 THEN secs ELSE 0>>)

\* A row whose estimate is computed first and used whenever there is one
\* (`estimate_bitrate_mbps(...) or declared_mbps`).
MakeRowEstimateFirst(v, a, est, origin) ==
    [entryId |-> extract_ids(v.playlist)[1],
     flavorId |-> extract_ids(v.playlist)[2],
     playlist |-> v.playlist,
     duration_seconds |-> a.total_seconds,
     encrypted |-> a.encrypted,
     declared |-> v.bandwidth # 0,
     bitrate |-> IF est > 0 THEN <<"estimate", est>>
                 ELSE IF v.bandwidth # 0 THEN <<"declared", v.bandwidth>> ELSE <<"N/A", 0>>,
     sort_bps |-> IF est > 0 THEN est ELSE v.bandwidth,
     origin |-> origin]

\* app.py 894-913: the row of an analysed variant; est is what
\* estimate_bitrate_mbps gives for its segments (it is called only when no
\* bandwidth is declared, 895).  sort_bps stands for sort_mbps and the number
\* of the bitrate label, both in bits per second; "" and -1 stand for None.
MakeRow(v, a, est, origin) ==
    [entryId |-> extract_ids(v.playlist)[1],
     flavorId |-> extract_ids(v.playlist)[2],
     playlist |-> v.playlist,
     duration_seconds |-> a.total_seconds,
     encrypted |-> a.encrypted,
     declared |-> v.bandwidth # 0,
     bitrate |-> IF v.bandwidth # 0 THEN <<"declared", v.bandwidth>>
                 ELSE IF est > 0 THEN <<"estimate", est>> ELSE <<"N/A", 0>>,
     sort_bps |-> IF v.bandwidth # 0 THEN v.bandwidth ELSE IF est > 0 THEN est ELSE 0,
     origin |-> origin]

\* A loop whose except clause records the failed variant as a row without
\* data.
FailureKeepsRow(rs, v, i) ==
    Append(rs, MakeRow(v, [is_vod |-> FALSE, total_seconds |-> -1, encrypted |-> FALSE], -1, i))

\* app.py 890-893: the except clause appends nothing to rows
RowsAfterFailure(rs, v, i) == rs

\* app.py 887-913: one round of the loop over the variants
AnalyzeVariant ==
    /\ pc = "analyze"
    /\ vi <= Len(variants)
    /\ \/ /\ analysed' = Append(analysed, "failed")
          /\ vi' = AfterVariantFailure(vi)
          /\ rows' = RowsAfterFailure(rows, variants[vi], vi)
          /\ UNCHANGED dur_by_entry
       \/ \E a \in Analyses : \E est \in Estimates :
            LET v == variants[vi]
                entryId == extract_ids(v.playlist)[1]
            IN /\ analysed' = Append(analysed, "ok")
               /\ vi' = vi + 1
               /\ dur_by_entry' = IF entryId # "" /\ a.total_seconds > 0
                                  THEN DurUpdate(dur_by_entry, entryId, a.total_seconds)
                                  ELSE dur_by_entry
               /\ rows' = Append(rows, MakeRow(v, a, est, vi))
    /\ UNCHANGED <<captureVars, master, variants, pc, result, errorAt>>
    /\ UNCHANGED <<obsVars, pollVars, utilVars, batchVars>>

\* min in the place of max: the entry with the shortest duration.
ShortestEntry(d) ==
    LET k == CHOOSE x \in 1..Len(d) :
                 /\ \A y \in 1..Len(d) : d[y][2] >= d[x][2]
                 /\ \A y \in 1..(x - 1) : d[y][2] > d[x][2]
    IN d[k][1]

\* A maximum search that replaces its candidate on `>=`: the last maximum.
LastBestEntry(d) ==
    LET k == CHOOSE x \in 1..Len(d) :
                 /\ \A y \in 1..Len(d) : d[y][2] <= d[x][2]
                 /\ \A y \in (x + 1)..Len(d) : d[y][2] < d[x][2]
    IN d[k][1]

\* max(dur_by_entry.items(), key=lambda kv: kv[1])[0]: the first maximum
BestEntry(d) ==
    LET k == CHOOSE x \in 1..Len(d) :
                 /\ \A y \in 1..Len(d) : d[y][2] <= d[x][2]
                 /\ \A y \in 1..(x - 1) : d[y][2] < d[x][2]
    IN d[k][1]

\* An ascending sort followed by a reversal: descending, but rows with equal
\* keys end in the reverse of their order.
RECURSIVE InsertBeforeTies(_, _)
InsertBeforeTies(sorted, r) ==
    IF sorted = <<>> THEN <<r>>
    ELSE IF sorted[1].sort_bps > r.sort_bps
         THEN <<sorted[1]>> \o InsertBeforeTies(Tail(sorted), r)
         ELSE <<r>> \o sorted

\* list.sort(key=..., reverse=True): stable, descending
RECURSIVE InsertDesc(_, _)
InsertDesc(sorted, r) ==
    IF sorted = <<>> THEN <<r>>
    ELSE IF sorted[1].sort_bps >= r.sort_bps
         THEN <<sorted[1]>> \o InsertDesc(Tail(sorted), r)
         ELSE <<r>> \o sorted

RECURSIVE SortDesc(_)
SortDesc(rs) == IF rs = <<>> THEN <<>> ELSE InsertDesc(SortDesc(Front(rs)), Last(rs))

\* A filter without the test of 915: with no duration known no entry is the
\* best one and no row is kept.
DisambiguateAlways(rs, d) ==
    SelectSeq(rs, LAMBDA r : d # <<>> /\ r.entryId = BestEntry(d))

\* app.py 915-917
Disambiguate(rs, d) ==
    IF d = <<>> THEN rs ELSE SelectSeq(rs, LAMBDA r : r.entryId = BestEntry(d))

\* app.py 915-935 (and the download that follows a non-empty list)
Rank ==
    /\ pc = "analyze"
    /\ vi > Len(variants)
    /\ rows' = SortDesc(Disambiguate(rows, dur_by_entry))
    /\ result' = IF rows' = <<>> THEN "error" ELSE "ok"
    /\ errorAt' = IF rows' = <<>> THEN "novariants" ELSE ""
    /\ pc' = "done"
    /\ UNCHANGED <<captureVars, master, variants, vi, analysed, dur_by_entry>>
    /\ UNCHANGED <<obsVars, pollVars, utilVars, batchVars>>

(***************************************************************************)
(* m3u8_sniffer_utils.py: detection and cleaning of response URLs          *)
(***************************************************************************)
RMasterUtm == Url("example.com", <<"master.m3u8">>, << <<"utm_source", "x">> >>)
RVariant   == Url("example.com", <<"v720.m3u8">>, <<>>)
RVariantQ  == Url("example.com", <<"v720%2Em3u8">>, << <<"t", "1">> >>)
RSegment   == Url("example.com", <<"seg.ts">>, <<>>)

\* M3U8_URL_REGEX: ".m3u8" followed by the end of the URL or by "?"
M3U8_URL_REGEX(u) == Len(u.path) > 0 /\ Last(u.path) \in M3u8Files /\ u.frag = ""
\* M3U8_COMPREHENSIVE_REGEX: ".m3u8" anywhere in the URL
M3U8_COMPREHENSIVE_REGEX(u) ==
    \/ \E i \in 1..Len(u.path) : u.path[i] \in M3u8Files
    \/ \E i \in 1..Len(u.query) : u.query[i][2] \in M3u8Files

is_m3u8_url(u) == u # NoUrl /\ (M3U8_URL_REGEX(u) \/ M3U8_COMPREHENSIVE_REGEX(u))

\* urllib.parse.unquote on the tokens of the model: one level of percent-
\* encoding is removed
Unquote(s) ==
    CASE s = "v720%2Em3u8" -> "v720.m3u8"
      [] s = "v720%252Em3u8" -> "v720%2Em3u8"
      [] s = "a%20b" -> "a b"
      [] s = "%2B" -> "+"
      [] s = "%252B" -> "%2B"
      [] OTHER -> s
\* parse_qs on a key or a value (utils 251): "+" becomes a space, then unquote
UnquotePlus(s) ==
    CASE s = "a+b" -> "a b"
      [] s = "+" -> " "
      [] OTHER -> Unquote(s)
\* urllib.parse.quote_plus on the tokens of the model (urlencode, line 260)
QuotePlus(s) ==
    CASE s = "a b" -> "a+b"
      [] s = " " -> "+"
      [] s = "+" -> "%2B"
      [] s = "%2B" -> "%252B"
      [] s = "a%20b" -> "a%2520b"
      [] s = "v720%2Em3u8" -> "v720%252Em3u8"
      [] OTHER -> s

\* The query values that are the base64 of an http(s) URL, and that URL.
B64Values == {"aHR0cHM6Ly9leGFtcGxlLmNvbS9tYXN0ZXIubTN1OA"}
B64Target(v) == UPlain
B64Keys == <<"url", "stream", "m3u8", "manifest", "playlist">>

RECURSIVE FirstB64(_, _)
FirstB64(q, k) ==
    IF k > Len(B64Keys) THEN NoUrl
    ELSE LET I == {i \in 1..Len(q) : q[i][1] = B64Keys[k]}
         IN IF I # {} /\ q[CHOOSE i \in I : \A j \in I : i <= j][2] \in B64Values
            THEN B64Target(q[CHOOSE i \in I : \A j \in I : i <= j][2])
            ELSE FirstB64(q, k + 1)

\* (decoded is bound, here and below, so that each intermediate result is
\* computed once)
decode_url_fragments(u) ==
    IF u = NoUrl THEN u
    ELSE CHOOSE out \in
           {IF FirstB64(decoded.query, 1) # NoUrl THEN FirstB64(decoded.query, 1) ELSE decoded :
              decoded \in {[u EXCEPT !.path = [i \in 1..Len(u.path) |-> Unquote(u.path[i])],
                                     !.query = [i \in 1..Len(u.query) |->
                                                  <<Unquote(u.query[i][1]), Unquote(u.query[i][2])>>]]}} : TRUE

SPAM_QUERY_PARAMS == {"utm_source", "utm_medium", "utm_campaign", "utm_term", "utm_content",
                      "fbclid", "gclid", "msclkid", "_ga", "_gid", "mc_cid", "mc_eid",
                      "ref", "source", "campaign", "tracker", "tracking"}

\* parse_qs then urlencode(doseq=True): the pairs grouped by key, the keys in
\* the order of their first occurrence
RECURSIVE GroupByKey(_)
GroupByKey(q) ==
    IF q = <<>> THEN <<>>
    ELSE LET k == q[1][1]
         IN SelectSeq(q, LAMBDA kv : kv[1] = k) \o GroupByKey(SelectSeq(q, LAMBDA kv : kv[1] # k))

strip_tracking_params(u) ==
    IF u = NoUrl THEN u
    ELSE CHOOSE out \in
           {[u EXCEPT !.query = [i \in 1..Len(kept) |-> <<QuotePlus(kept[i][1]), QuotePlus(kept[i][2])>>]] :
              kept \in {SelectSeq(GroupByKey([i \in 1..Len(u.query) |->
                                                 <<UnquotePlus(u.query[i][1]), UnquotePlus(u.query[i][2])>>]),
                                  LAMBDA kv : Lower(kv[1]) \notin SPAM_QUERY_PARAMS)}} : TRUE

clean_m3u8_url(u) ==
    IF u = NoUrl THEN u
    ELSE CHOOSE out \in {strip_tracking_params(decoded) : decoded \in {decode_url_fragments(u)}} : TRUE

\* The URLs clean_m3u8_url is called with: the response URLs above, a path
\* and a value that are percent-encoded twice, a key given twice with another
\* key in between, a base64-encoded URL and a URL with a fragment.
CleanUrls == {
    RMasterUtm, RVariant, RVariantQ, RSegment, UPlain, UMasterSec, NoUrl,
    Url("example.com", <<"v720%252Em3u8">>, <<>>),
    Url("example.com", <<"master.m3u8">>, << <<"t", "%252B">> >>),
    Url("example.com", <<"master.m3u8">>, << <<"t", "a%20b">>, <<"fbclid", "x">> >>),
    Url("example.com", <<"master.m3u8">>,
        << <<"a", "1">>, <<"utm_source", "x">>, <<"b", "2">>, <<"a", "3">> >>),
    Url("example.com", <<"play">>, << <<"url", "aHR0cHM6Ly9leGFtcGxlLmNvbS9tYXN0ZXIubTN1OA">> >>),
    [Url("example.com", <<"master.m3u8">>, << <<"gclid", "x">>, <<"t", "1">> >>) EXCEPT !.frag = "t10"] }

\* The URLs the classification functions are called with: masters and
\* flavors of the vendor, a play-manifest URL that names a flavor, a flavor
\* served under a master file name, an entry of another host, and a URL
\* whose flavor is named in the query.
ClassifyUrls == {
    UMasterSec, UMasterCdn, UFlavor1, UFlavor3, UPlain, RVariant, RSegment,
    Url("cdnapisec.kaltura.com", <<"p", "playManifest", "entryId", "E1", "flavorId", "F1", "a.m3u8">>, <<>>),
    Url("cfvod.kaltura.com", <<"entryId", "E1", "v", "flavorId", "F1", "master.m3u8">>, <<>>),
    Url("example.com", <<"entryId", "E1", "index.m3u8">>, <<>>),
    Url("example.com", <<"entryId", "E1", "index.m3u8">>, << <<"flavorId", "F1">> >>) }

\* The URLs is_m3u8_url is called with (test_capture_remote_example.py 63-69
\* and others): manifests with and without a query or a fragment, a video
\* file, a segment below a directory named like a manifest, a segment whose
\* query names a manifest, and the empty URL.
DetectionUrls == {
    UPlain, RVariant, RMasterUtm, RSegment, UFlavor1, NoUrl,
    Url("example.com", <<"video.mp4">>, <<>>),
    Url("example.com", <<"v720.m3u8">>, << <<"token", "abc">> >>),
    Url("example.com", <<"v720.m3u8", "seg.ts">>, <<>>),
    Url("example.com", <<"seg.ts">>, << <<"src", "v720.m3u8">> >>),
    [Url("example.com", <<"v720.m3u8">>, <<>>) EXCEPT !.frag = "t10"] }

\* KALTURA_ENTRYID_REGEX / KALTURA_FLAVORID_REGEX .search(url).group(1)
\* (utils 50-58): the segment after the first segment that is, in any case,
\* "entryId" / "flavorId"; "" stands for None.  (The identifiers of the model
\* are followed by another segment, so the group ends at the segment's end.)
ExtractAfter(p, seg) ==
    LET I == {i \in 1..(Len(p) - 1) : Lower(p[i]) = seg /\ p[i + 1] # ""}
    IN IF I = {} THEN "" ELSE p[(CHOOSE i \in I : \A j \in I : i <= j) + 1]

\* utils 160-181
extract_kaltura_ids(u) == <<ExtractAfter(u.path, "entryid"), ExtractAfter(u.path, "flavorid")>>

\* analyze_m3u8_url (utils 358-393): the fields the sessions and callers read
analyze_m3u8_url(u, status) ==
    CHOOSE info \in {[url |-> cleaned,
                      is_master |-> detect_master_vs_variant(cleaned),
                      status_code |-> status] : cleaned \in {clean_m3u8_url(u)}} : TRUE

(***************************************************************************)
(* One observer session: capture_m3u8_via_playwright (playwright.py        *)
(* 202-388) and capture_m3u8_via_selenium_cdp (selenium_cdp.py 157-309).   *)
(* Time is counted in ticks of 100 ms.                                     *)
(***************************************************************************)
\* The responses a page of the model can produce: URL, status and whether the
\* content type is one of HLS_CONTENT_TYPES.
Responses == {
    [url |-> UPlain,     status |-> 200, hls |-> TRUE],
    [url |-> RMasterUtm, status |-> 200, hls |-> FALSE],
    [url |-> RVariant,   status |-> 200, hls |-> FALSE],
    [url |-> RVariant,   status |-> 404, hls |-> FALSE],
    [url |-> RVariantQ,  status |-> 200, hls |-> TRUE],
    [url |-> RSegment,   status |-> 200, hls |-> FALSE] }

MaxResponses == 2      \* responses the pages produce while the driver is up
NavTimeout == 2        \* the `timeout` argument of the modelled call, in ticks
MaxClickTicks == 1     \* the longest the play-button clicks take, in ticks
WaitAfterLoad == 30    \* wait_after_load=3.0
PwCheckInterval == 2   \* check_interval = 0.2
CdpCheckInterval == 3  \* check_interval = 0.3
GraceTicks == 10       \* the 1.0 s after the master was found

\* playwright.py 272, selenium_cdp.py 249: only successful responses
StatusOk(status) == ~(status < 200 \/ status >= 400)
\* playwright.py 284-287, selenium_cdp.py 256-259
IsManifestResponse(r) == is_m3u8_url(r.url) \/ r.hls

\* playwright.py 304: every detected response is appended
PwRecord(list, info) == Append(list, info)
\* selenium_cdp.py 274-275: appended unless the URL is in the list already
CdpRecord(list, info) ==
    IF \E i \in 1..Len(list) : list[i].url = info.url THEN list ELSE Append(list, info)

ObsInit ==
    /\ backend \in {"pw", "cdp"}
    /\ opc = "start"
    /\ own_manager \in BOOLEAN
    /\ browserUp = FALSE
    /\ now = 0
    /\ navStart = 0
    /\ elapsed = 0
    /\ start_time = -1
    /\ master_found_time = -1
    /\ found_m3u8s = <<>>
    /\ perfLog = <<>>
    /\ nResponses = 0
    /\ occurred = {}
    /\ waitEnd = -1
    /\ waitSteps = 0
    /\ held = {}
    /\ page = 1

ObsIdle ==
    /\ backend = "idle"
    /\ opc = "idle"
    /\ own_manager = FALSE
    /\ browserUp = FALSE
    /\ now = 0
    /\ navStart = 0
    /\ elapsed = 0
    /\ start_time = -1
    /\ master_found_time = -1
    /\ found_m3u8s = <<>>
    /\ perfLog = <<>>
    /\ nResponses = 0
    /\ occurred = {}
    /\ waitEnd = -1
    /\ waitSteps = 0
    /\ held = {}
    /\ page = 1

obsHist == <<nResponses, occurred, waitEnd, waitSteps>>

\* The URLs the caller of a reused manager hands over, one session each.
MaxPages == 2

\* The statements of start() that can raise: playwright.py 130 and 133-136,
\* selenium_cdp.py 114 (install), 115 (Chrome) and 118 (Network.enable).
StartSteps(b) == IF b = "pw" THEN {"playwright", "launch"} ELSE {"install", "chrome", "enable"}

\* What a start() that succeeded holds (playwright.py 130-136, selenium_cdp.py 115).
Started(b) == IF b = "pw" THEN {"playwright", "browser"} ELSE {"driver"}

\* playwright.py 125 and 167, selenium_cdp.py 97 and 139: the test by which
\* start() and get_browser() / get_driver() take the manager for started
HoldsBrowser(b, h) == IF b = "pw" THEN "browser" \in h ELSE "driver" \in h

\* What start() leaves behind when `step` raises.  playwright.py 138-143
\* stops the playwright it started and forgets it; selenium_cdp.py 121-123
\* logs and re-raises, so the driver assigned at 115 stays in self.driver
\* and its Chrome keeps running when 118 raises.
AfterFailedStart(b, step) ==
    IF b = "cdp" /\ step = "enable"
    THEN [held |-> {"driver"}, up |-> TRUE]
    ELSE [held |-> {}, up |-> FALSE]

\* playwright.py 252-258 / selenium_cdp.py 196-202: the temporary manager is
\* started outside the try; playwright.py 504 / selenium_cdp.py 393: the
\* reused manager is started by its `with`.  start() may raise; otherwise
\* the navigation of the first page begins (playwright.py 342-350 with the
\* listener attached, selenium_cdp.py 205-211).
StartSession ==
    /\ opc = "start"
    /\ \/ \E step \in StartSteps(backend) :
            /\ held' = AfterFailedStart(backend, step).held
            /\ browserUp' = AfterFailedStart(backend, step).up
            /\ opc' = "raised"
            /\ UNCHANGED navStart
       \/ /\ held' = Started(backend)
          /\ browserUp' = TRUE
          /\ navStart' = now
          /\ opc' = "nav"
    /\ UNCHANGED <<page, backend, own_manager, now, elapsed, start_time, master_found_time,
                   found_m3u8s, perfLog, obsHist>>
    /\ UNCHANGED <<procVars, pollVars, utilVars, batchVars>>

\* Time passes while page.goto / driver.get blocks, at most `timeout`.
NavPass ==
    /\ opc = "nav"
    /\ now - navStart < NavTimeout
    /\ now' = now + 1
    /\ UNCHANGED <<held, page, backend, opc, own_manager, browserUp, navStart, elapsed, start_time,
                   master_found_time, found_m3u8s, perfLog, obsHist>>
    /\ UNCHANGED <<procVars, pollVars, utilVars, batchVars>>

\* playwright.py 349-358 / selenium_cdp.py 210-215: the navigation returns or
\* raises (its timeout included); both ways the session goes on.  Then the
\* play buttons are clicked (playwright.py 361-365, selenium_cdp.py 218-222)
\* and the wait loop is set up (playwright.py 369-370, selenium_cdp.py 226).
NavEnd ==
    /\ opc = "nav"
    /\ \E d \in 0..MaxClickTicks :
         /\ now' = now + d
         /\ start_time' = IF backend = "cdp" THEN now + d ELSE start_time
    /\ elapsed' = 0
    /\ opc' = "wait"
    /\ UNCHANGED <<held, page, backend, own_manager, browserUp, navStart, master_found_time,
                   found_m3u8s, perfLog, obsHist>>
    /\ UNCHANGED <<procVars, pollVars, utilVars, batchVars>>

\* on_response (playwright.py 263-319) for a response arriving at time t
on_response(r, t) ==
    IF StatusOk(r.status) /\ IsManifestResponse(r)
    THEN LET info == analyze_m3u8_url(r.url, r.status)
         IN /\ found_m3u8s' = PwRecord(found_m3u8s, info)
            /\ master_found_time' = IF info.is_master /\ master_found_time = -1
                                    THEN t ELSE master_found_time
    ELSE UNCHANGED <<found_m3u8s, master_found_time>>

\* The page produces a response while the session is navigating or waiting.
\* Playwright calls on_response; Chrome appends a Network.responseReceived
\* entry to the performance log.  During a sleep the response arrives d ticks
\* after the sleep began.
Respond ==
    /\ opc \in {"nav", "wait", "sleep"}
    /\ nResponses < MaxResponses
    /\ \E r \in Responses :
       \E d \in (IF opc = "sleep" THEN 0..((IF backend = "pw" THEN PwCheckInterval ELSE CdpCheckInterval) - 1) ELSE {0}) :
         /\ nResponses' = nResponses + 1
         /\ occurred' = IF StatusOk(r.status) /\ IsManifestResponse(r)
                        THEN occurred \cup {clean_m3u8_url(r.url)} ELSE occurred
         /\ IF backend = "pw"
            THEN on_response(r, now + d) /\ UNCHANGED perfLog
            ELSE perfLog' = Append(perfLog, r) /\ UNCHANGED <<found_m3u8s, master_found_time>>
    /\ UNCHANGED <<held, page, backend, opc, own_manager, browserUp, now, navStart, elapsed,
                   start_time, waitEnd, waitSteps>>
    /\ UNCHANGED <<procVars, pollVars, utilVars, batchVars>>

\* selenium_cdp.py 234-286: the entries of one get_log('performance'), one
\* after the other (info and next are bound so that each is computed once)
RECURSIVE ProcessLog(_, _)
ProcessLog(log, list) ==
    IF log = <<>> THEN list
    ELSE LET r == log[1]
         IN IF StatusOk(r.status) /\ IsManifestResponse(r)
            THEN CHOOSE out \in {ProcessLog(Tail(log), next) :
                                   next \in {CdpRecord(list, info) :
                                               info \in {analyze_m3u8_url(r.url, r.status)}}} : TRUE
            ELSE ProcessLog(Tail(log), list)

\* playwright.py 372: `while elapsed < wait_after_load`
PwLoopGoesOn == elapsed < WaitAfterLoad
\* A wait loop whose test never fails (`while True`).
CdpLoopForever == TRUE

\* selenium_cdp.py 229: `while time.time() - start_time < wait_after_load`
CdpLoopGoesOn == now - start_time < WaitAfterLoad
\* A wait loop without the early exit.
EarlyExitNever(m, t) == FALSE

\* playwright.py 374, selenium_cdp.py 296: the early exit, for master time m
EarlyExit(m, t) == m # -1 /\ t - m > GraceTicks

\* playwright.py 372-376: the loop test and the early exit
PwCheck ==
    /\ backend = "pw" /\ opc = "wait"
    /\ IF PwLoopGoesOn /\ ~EarlyExit(master_found_time, now)
       THEN opc' = "sleep" /\ UNCHANGED waitEnd
       ELSE opc' = "close" /\ waitEnd' = now
    /\ UNCHANGED <<held, page, backend, own_manager, browserUp, now, navStart, elapsed, start_time,
                   master_found_time, found_m3u8s, perfLog, nResponses, occurred, waitSteps>>
    /\ UNCHANGED <<procVars, pollVars, utilVars, batchVars>>

\* selenium_cdp.py 229-298: the loop test, one poll of the log, the early exit
CdpCheck ==
    /\ backend = "cdp" /\ opc = "wait"
    /\ IF CdpLoopGoesOn
       THEN \E list \in {ProcessLog(perfLog, found_m3u8s)} :
            LET gotMaster == \E i \in (Len(found_m3u8s) + 1)..Len(list) : list[i].is_master
                m == IF gotMaster /\ master_found_time = -1 THEN now ELSE master_found_time
            IN /\ found_m3u8s' = list
               /\ perfLog' = <<>>
               /\ master_found_time' = m
               /\ IF EarlyExit(m, now)
                  THEN opc' = "close" /\ waitEnd' = now
                  ELSE opc' = "sleep" /\ UNCHANGED waitEnd
       ELSE /\ opc' = "close" /\ waitEnd' = now
            /\ UNCHANGED <<found_m3u8s, perfLog, master_found_time>>
    /\ UNCHANGED <<held, page, backend, own_manager, browserUp, now, navStart, elapsed, start_time,
                   nResponses, occurred, waitSteps>>
    /\ UNCHANGED <<procVars, pollVars, utilVars, batchVars>>

\* playwright.py 378-379 / selenium_cdp.py 300: time.sleep(check_interval)
Sleep ==
    /\ opc = "sleep"
    /\ now' = now + (IF backend = "pw" THEN PwCheckInterval ELSE CdpCheckInterval)
    /\ elapsed' = IF backend = "pw" THEN elapsed + PwCheckInterval ELSE elapsed
    /\ waitSteps' = waitSteps + 1
    /\ opc' = "wait"
    /\ UNCHANGED <<held, page, backend, own_manager, browserUp, navStart, start_time,
                   master_found_time, found_m3u8s, perfLog, nResponses, occurred, waitEnd>>
    /\ UNCHANGED <<procVars, pollVars, utilVars, batchVars>>

\* playwright.py 383-388 / selenium_cdp.py 304-309: the finally clause stops a
\* manager of the session's own, and the list is returned
Return ==
    /\ opc = "close"
    /\ browserUp' = IF own_manager THEN FALSE ELSE browserUp
    /\ held' = IF own_manager THEN {} ELSE held
    /\ opc' = "returned"
    /\ UNCHANGED <<page, backend, own_manager, now, navStart, elapsed, start_time,
                   master_found_time, found_m3u8s, perfLog, obsHist>>
    /\ UNCHANGED <<procVars, pollVars, utilVars, batchVars>>

\* playwright.py 505-513 / selenium_cdp.py 394-402: the loop over the URLs
\* calls the capture function again with the same manager.  The call's locals
\* start afresh (playwright.py 248-249 and 369, selenium_cdp.py 192-193); the
\* manager hands out the browser or driver it holds (playwright.py 167-169 and
\* a new page, selenium_cdp.py 139-141), and with the driver the log entries
\* nobody has read yet.  Time is counted from the new call.
NextSession ==
    /\ opc = "returned"
    /\ ~own_manager
    /\ page < MaxPages
    /\ page' = page + 1
    /\ found_m3u8s' = <<>>
    /\ master_found_time' = -1
    /\ elapsed' = 0
    /\ start_time' = -1
    /\ now' = 0
    /\ navStart' = 0
    /\ occurred' = {}
    /\ waitEnd' = -1
    /\ waitSteps' = 0
    /\ opc' = "nav"
    /\ UNCHANGED <<held, backend, own_manager, browserUp, perfLog, nResponses>>
    /\ UNCHANGED <<procVars, pollVars, utilVars, batchVars>>

\* playwright.py 194-196 / selenium_cdp.py 148-150: the `with` of the reused
\* manager ends after the last URL and stops it (playwright.py 145-163,
\* selenium_cdp.py 127-135).
StopManager ==
    /\ opc = "returned"
    /\ ~own_manager
    /\ held' = {}
    /\ browserUp' = FALSE
    /\ opc' = "stopped"
    /\ UNCHANGED <<page, backend, own_manager, now, navStart, elapsed, start_time,
                   master_found_time, found_m3u8s, perfLog, obsHist>>
    /\ UNCHANGED <<procVars, pollVars, utilVars, batchVars>>

\* get_browser() / get_driver() (playwright.py 165-169, selenium_cdp.py
\* 137-141) on a manager whose start() has raised: start() is called again
\* only if the manager holds no browser or driver; otherwise what it holds is
\* returned.
GetAgain ==
    /\ opc = "raised"
    /\ ~own_manager
    /\ IF HoldsBrowser(backend, held)
       THEN opc' = "got" /\ UNCHANGED <<held, browserUp>>
       ELSE \/ \E step \in StartSteps(backend) :
                 /\ held' = AfterFailedStart(backend, step).held
                 /\ browserUp' = AfterFailedStart(backend, step).up
                 /\ opc' = "raised"
            \/ /\ held' = Started(backend)
               /\ browserUp' = TRUE
               /\ opc' = "restarted"
    /\ UNCHANGED <<page, backend, own_manager, now, navStart, elapsed, start_time,
                   master_found_time, found_m3u8s, perfLog, obsHist>>
    /\ UNCHANGED <<procVars, pollVars, utilVars, batchVars>>

ObsNext ==
    \/ StartSession \/ NavPass \/ NavEnd \/ Respond
    \/ PwCheck \/ CdpCheck \/ Sleep \/ Return
    \/ NextSession \/ StopManager \/ GetAgain

(***************************************************************************)
(* One legacy session: poll_m3u8_optimized (app.py 474-560) with its       *)
(* background click thread and the caller's teardown (app.py 839-854), and *)
(* poll_m3u8 (app.py 562-628).  Time is counted in ticks of 100 ms.        *)
(***************************************************************************)
UMasterLc == Url("cdnapisec.kaltura.com", <<"p", "playmanifest", "entryId", "E1", "a.m3u8">>, <<>>)

\* The requests selenium-wire can record for a page of the model.
PollUrls == {UMasterSec, UMasterLc, UFlavor1}

MaxSeconds == 25        \* the max_seconds argument of the modelled call, in ticks
ThreadClickMax == 13    \* the longest one click_once_everywhere takes, in ticks
FallbackTimeout == 100  \* wait_for_request('.*\\.m3u8', timeout=10)
GraceSleep == 5         \* time.sleep(0.5)
JoinTimeout == 10       \* click_thread.join(timeout=1)
ClickSleep == 3         \* time.sleep(0.3)
PollInterval == 3       \* interval=0.3
PollFastInterval == 1   \* time.sleep(0.1)
GraceAfterFirst == 20   \* grace_after_first=2
MinLinksToStop == 2     \* min_links_to_stop=2

\* re.search('.*kaltura.com.*playmanifest.*m3u8', url): case-sensitive
MatchesMasterPattern(u) ==
    /\ HasKalturaCom(u)
    /\ \E i \in 1..Len(u.path) : u.path[i] = "playmanifest" /\ \E j \in (i + 1)..Len(u.path) : u.path[j] \in M3u8Files
\* re.search('.*\\.m3u8', url)
MatchesAnyM3u8(u) == M3U8_COMPREHENSIVE_REGEX(u)
\* app.py 533, 581: (".m3u8" in url.lower()) or ("mpegurl" in ct)
IsRecordedManifest(u) == M3U8_COMPREHENSIVE_REGEX(u)

\* A click loop that does not read the stop signal (`while True`).
ClickLoopIgnoresStop(stop) == TRUE

\* app.py 487: `while not stop_clicking.is_set()`
ClickLoopGoesOn(stop) == ~stop
\* app.py 511: the stop signal is set in the same step as a match is taken
StopOnMatch == TRUE
\* app.py 513-522: on a timeout the stop signal is set only after the second
\* wait_for_request
StopOnTimeout == FALSE

PollInit ==
    /\ session \in {"opt", "poll"}
    /\ mpc = "init"
    /\ tpc = "unstarted"
    /\ stop_clicking = FALSE
    /\ fgLeft = 0
    /\ clickLeft = 0
    /\ sleepLeft = 0
    /\ requests = {}
    /\ found = {}
    /\ t_first = -1
    /\ poll_master_time = -1
    /\ pollNow = 0
    /\ driverUp = TRUE
    /\ fgResolved = FALSE
    /\ roundsAfterStop = 0
    /\ clicksAfterReturn = 0
    /\ pollSteps = 0
    /\ last_master = NoUrl
    /\ master_request = NoUrl
    /\ poll_master_url = NoUrl

PollIdle ==
    /\ session = "idle"
    /\ mpc = "idle"
    /\ tpc = "unstarted"
    /\ stop_clicking = FALSE
    /\ fgLeft = 0
    /\ clickLeft = 0
    /\ sleepLeft = 0
    /\ requests = {}
    /\ found = {}
    /\ t_first = -1
    /\ poll_master_time = -1
    /\ pollNow = 0
    /\ driverUp = FALSE
    /\ fgResolved = FALSE
    /\ roundsAfterStop = 0
    /\ clicksAfterReturn = 0
    /\ pollSteps = 0
    /\ last_master = NoUrl
    /\ master_request = NoUrl
    /\ poll_master_url = NoUrl

threadVars == <<tpc, clickLeft, sleepLeft, roundsAfterStop, clicksAfterReturn>>
headerVars == <<last_master, master_request, poll_master_url>>
pollLoopVars == <<t_first, poll_master_time>>

\* The session has handed control back to process_single_url.
SessionOver == mpc \in {"returned", "raised", "quit"}

\* app.py 495-507: the click thread is started and the foreground blocks in
\* wait_for_request for the master pattern
StartThread ==
    /\ session = "opt" /\ mpc = "init"
    /\ tpc' = "check"
    /\ mpc' = "wait_master"
    /\ fgLeft' = MaxSeconds
    /\ UNCHANGED <<session, stop_clicking, clickLeft, sleepLeft, requests, found, pollLoopVars,
                   pollNow, driverUp, fgResolved, roundsAfterStop, clicksAfterReturn, pollSteps>>
    /\ UNCHANGED headerVars
    /\ UNCHANGED <<procVars, obsVars, utilVars, batchVars>>

\* The browser makes a request that selenium-wire records.
RequestArrives ==
    /\ mpc \in {"wait_master", "wait_any", "grace", "loop", "poll_sleep"}
    /\ \E u \in PollUrls \ requests :
         /\ requests' = requests \cup {u}
         /\ last_master' = IF IsRecordedManifest(u) /\ IsPollMaster(u) THEN u ELSE last_master
    /\ UNCHANGED <<session, mpc, stop_clicking, fgLeft, found, pollLoopVars, pollNow, driverUp,
                   fgResolved, pollSteps, threadVars>>
    /\ UNCHANGED <<master_request, poll_master_url>>
    /\ UNCHANGED <<procVars, obsVars, utilVars, batchVars>>

\* app.py 504-511: the wait returns a request matching the master pattern
MasterMatched ==
    /\ mpc = "wait_master"
    /\ \E u \in requests :
         /\ MatchesMasterPattern(u)
         /\ master_request' = u
         /\ found' = found \cup {u}
    /\ fgResolved' = TRUE
    /\ stop_clicking' = (stop_clicking \/ StopOnMatch)
    /\ mpc' = "grace"
    /\ fgLeft' = GraceSleep
    /\ UNCHANGED <<session, requests, pollLoopVars, pollNow, driverUp, pollSteps, threadVars>>
    /\ UNCHANGED <<last_master, poll_master_url>>
    /\ UNCHANGED <<procVars, obsVars, utilVars, batchVars>>

\* app.py 513-517: the wait times out; the foreground blocks in the second
\* wait_for_request, for any .m3u8
MasterTimedOut ==
    /\ mpc = "wait_master"
    /\ fgLeft = 0
    /\ ~\E u \in requests : MatchesMasterPattern(u)
    /\ fgResolved' = TRUE
    /\ stop_clicking' = (stop_clicking \/ StopOnTimeout)
    /\ mpc' = "wait_any"
    /\ fgLeft' = FallbackTimeout
    /\ UNCHANGED <<session, requests, found, pollLoopVars, pollNow, driverUp, pollSteps, threadVars>>
    /\ UNCHANGED headerVars
    /\ UNCHANGED <<procVars, obsVars, utilVars, batchVars>>

\* app.py 517-522: the second wait returns a request or times out; then the
\* stop signal is set
FallbackResolved ==
    /\ mpc = "wait_any"
    /\ \/ \E u \in requests : MatchesAnyM3u8(u) /\ found' = found \cup {u}
       \/ /\ fgLeft = 0
          /\ ~\E u \in requests : MatchesAnyM3u8(u)
          /\ UNCHANGED found
    /\ stop_clicking' = TRUE
    /\ mpc' = "grace"
    /\ fgLeft' = GraceSleep
    /\ UNCHANGED <<session, requests, pollLoopVars, pollNow, driverUp, fgResolved, pollSteps, threadVars>>
    /\ UNCHANGED headerVars
    /\ UNCHANGED <<procVars, obsVars, utilVars, batchVars>>

\* app.py 528-537: every recorded request that passes the test of 536 is
\* assigned to master_request in turn, so the last one stays; without such a
\* request the one of the wait stays
CollectedMasterRequest(waited, last) == IF last # NoUrl THEN last ELSE waited

\* app.py 525-541: after the grace sleep the recorded requests are collected
\* (reading them may raise); the finally clause sets the stop signal and
\* joins the thread for at most one second
Collect ==
    /\ mpc = "grace"
    /\ fgLeft = 0
    /\ \/ /\ found' = found \cup {u \in requests : IsRecordedManifest(u)}
          /\ master_request' = CollectedMasterRequest(master_request, last_master)
          /\ mpc' = "join"
       \/ /\ UNCHANGED <<found, master_request>>
          /\ mpc' = "join_raising"
    /\ stop_clicking' = TRUE
    /\ fgLeft' = JoinTimeout
    /\ UNCHANGED <<session, requests, pollLoopVars, pollNow, driverUp, fgResolved, pollSteps, threadVars>>
    /\ UNCHANGED <<last_master, poll_master_url>>
    /\ UNCHANGED <<procVars, obsVars, utilVars, batchVars>>

\* click_thread.join(timeout=1) returns when the thread has ended or when the
\* timeout has passed
JoinReturns(threadState, left) == threadState = "exited" \/ left = 0

\* app.py 541-560: the join returns; the session returns its result or lets
\* the exception of the collection through
Joined ==
    /\ mpc \in {"join", "join_raising"}
    /\ JoinReturns(tpc, fgLeft)
    /\ mpc' = IF mpc = "join" THEN "returned" ELSE "raised"
    /\ fgLeft' = 0
    /\ IF mpc = "join"
       THEN \E m \in PollMasters(found) : poll_master_url' = m
       ELSE UNCHANGED poll_master_url
    /\ UNCHANGED <<session, stop_clicking, requests, found, pollLoopVars, pollNow, driverUp,
                   fgResolved, pollSteps, threadVars>>
    /\ UNCHANGED <<last_master, master_request>>
    /\ UNCHANGED <<procVars, obsVars, utilVars, batchVars>>

\* app.py 839-854: the finally clause of process_single_url quits the driver
QuitDriver ==
    /\ session = "opt"
    /\ mpc \in {"returned", "raised"}
    /\ driverUp' = FALSE
    /\ mpc' = "quit"
    /\ UNCHANGED <<session, stop_clicking, fgLeft, requests, found, pollLoopVars, pollNow,
                   fgResolved, pollSteps, threadVars>>
    /\ UNCHANGED headerVars
    /\ UNCHANGED <<procVars, obsVars, utilVars, batchVars>>

\* app.py 487-489: the loop test of the click thread; a passed test begins a
\* round with click_once_everywhere
ThreadCheck ==
    /\ tpc = "check"
    /\ IF ClickLoopGoesOn(stop_clicking)
       THEN /\ tpc' = "clicking"
            /\ \E d \in 0..ThreadClickMax : clickLeft' = d
            /\ roundsAfterStop' = roundsAfterStop + (IF stop_clicking THEN 1 ELSE 0)
            /\ clicksAfterReturn' = clicksAfterReturn + (IF SessionOver THEN 1 ELSE 0)
       ELSE /\ tpc' = "exited"
            /\ UNCHANGED <<clickLeft, roundsAfterStop, clicksAfterReturn>>
    /\ UNCHANGED <<session, mpc, stop_clicking, fgLeft, sleepLeft, requests, found, pollLoopVars,
                   pollNow, driverUp, fgResolved, pollSteps>>
    /\ UNCHANGED headerVars
    /\ UNCHANGED <<procVars, obsVars, utilVars, batchVars>>

\* app.py 489-490: click_once_everywhere has returned; time.sleep(0.3)
ThreadClickDone ==
    /\ tpc = "clicking" /\ clickLeft = 0
    /\ tpc' = "sleeping"
    /\ sleepLeft' = ClickSleep
    /\ UNCHANGED <<session, mpc, stop_clicking, fgLeft, clickLeft, requests, found, pollLoopVars,
                   pollNow, driverUp, fgResolved, roundsAfterStop, clicksAfterReturn, pollSteps>>
    /\ UNCHANGED headerVars
    /\ UNCHANGED <<procVars, obsVars, utilVars, batchVars>>

\* app.py 490, 487: the sleep is over, back to the loop test
ThreadSleepDone ==
    /\ tpc = "sleeping" /\ sleepLeft = 0
    /\ tpc' = "check"
    /\ UNCHANGED <<session, mpc, stop_clicking, fgLeft, clickLeft, sleepLeft, requests, found,
                   pollLoopVars, pollNow, driverUp, fgResolved, roundsAfterStop,
                   clicksAfterReturn, pollSteps>>
    /\ UNCHANGED headerVars
    /\ UNCHANGED <<procVars, obsVars, utilVars, batchVars>>

\* One tick of time passes for the foreground and for the thread.
Tick ==
    /\ session = "opt"
    /\ \/ mpc \in {"wait_master", "wait_any", "grace"} /\ fgLeft > 0
       \/ mpc \in {"join", "join_raising"} /\ ~JoinReturns(tpc, fgLeft)
       \/ mpc = "quit" /\ tpc \in {"clicking", "sleeping"}
    /\ tpc = "clicking" => clickLeft > 0
    /\ tpc = "sleeping" => sleepLeft > 0
    /\ tpc # "check"
    /\ fgLeft' = IF fgLeft > 0 THEN fgLeft - 1 ELSE 0
    /\ clickLeft' = IF tpc = "clicking" THEN clickLeft - 1 ELSE clickLeft
    /\ sleepLeft' = IF tpc = "sleeping" THEN sleepLeft - 1 ELSE sleepLeft
    /\ clicksAfterReturn' = clicksAfterReturn + (IF SessionOver /\ tpc = "clicking" THEN 1 ELSE 0)
    /\ UNCHANGED <<session, mpc, tpc, stop_clicking, requests, found, pollLoopVars, pollNow,
                   driverUp, fgResolved, roundsAfterStop, pollSteps>>
    /\ UNCHANGED headerVars
    /\ UNCHANGED <<procVars, obsVars, utilVars, batchVars>>

OptNext ==
    \/ StartThread \/ RequestArrives \/ MasterMatched \/ MasterTimedOut
    \/ FallbackResolved \/ Collect \/ Joined \/ QuitDriver
    \/ ThreadCheck \/ ThreadClickDone \/ ThreadSleepDone \/ Tick

\* app.py 570-609: one round of the loop of poll_m3u8: the clicks (while no
\* master was seen), the scan of the recorded requests, the two exits and
\* the choice of the sleep
PollIterate ==
    /\ session = "poll" /\ mpc \in {"init", "loop"}
    /\ IF pollNow < MaxSeconds
       THEN \E d \in (IF poll_master_time = -1 THEN 0..MaxClickTicks ELSE {0}) :
            LET t == pollNow + d
                f == found \cup {u \in requests : IsRecordedManifest(u)}
                sawMaster == \E u \in requests : IsRecordedManifest(u) /\ IsPollMaster(u)
                mt == IF sawMaster /\ poll_master_time = -1 THEN t ELSE poll_master_time
                has_master == \E u \in f : IsPollMaster(u)
                tf == IF f # {} /\ t_first = -1 THEN t ELSE t_first
            IN /\ pollNow' = t
               /\ found' = f
               /\ poll_master_time' = mt
               /\ IF has_master /\ mt # -1 /\ t - mt >= GraceAfterFirst
                  THEN mpc' = "returned" /\ UNCHANGED <<t_first, fgLeft>>
                  ELSE /\ t_first' = tf
                       /\ IF tf # -1 /\ Cardinality(f) >= MinLinksToStop /\ t - tf >= GraceAfterFirst
                          THEN mpc' = "returned" /\ UNCHANGED fgLeft
                          ELSE /\ mpc' = "poll_sleep"
                               /\ fgLeft' = IF mt # -1 THEN PollFastInterval ELSE PollInterval
       ELSE /\ mpc' = "returned"
            /\ UNCHANGED <<pollNow, found, pollLoopVars, fgLeft>>
    /\ UNCHANGED <<session, stop_clicking, clickLeft, sleepLeft, requests, driverUp, fgResolved,
                   pollSteps, tpc, roundsAfterStop, clicksAfterReturn>>
    /\ UNCHANGED headerVars
    /\ UNCHANGED <<procVars, obsVars, utilVars, batchVars>>

\* app.py 606-609: the sleep that ends a round
PollSleep ==
    /\ session = "poll" /\ mpc = "poll_sleep"
    /\ pollNow' = pollNow + fgLeft
    /\ fgLeft' = 0
    /\ pollSteps' = pollSteps + 1
    /\ mpc' = "loop"
    /\ UNCHANGED <<session, stop_clicking, clickLeft, sleepLeft, requests, found, pollLoopVars,
                   driverUp, fgResolved, threadVars>>
    /\ UNCHANGED headerVars
    /\ UNCHANGED <<procVars, obsVars, utilVars, batchVars>>

PollNext == OptNext \/ PollIterate \/ PollSleep

(***************************************************************************)
(* analyze_variant (app.py 318-346).  A variant text is a sequence of       *)
(* stripped lines: "#EXTINF:<dur>,...", a segment URI, "#EXT-X-ENDLIST",    *)
(* "#EXT-X-KEY:...", another line starting with "#", or an empty line.      *)
(***************************************************************************)
\* A line of kind t; dur is float() of the field before the first comma of an
\* #EXTINF line, -1 when it is no number (last_dur = None); rel is the URI of
\* a segment line.
VLine(t, dur, rel) == [t |-> t, dur |-> dur, uri |-> NoUrl, rel |-> rel]

\* The lines a playlist of the model is made of.
LinePool == {
    VLine("extinf", 10, ""), VLine("extinf", 5, ""), VLine("extinf", -1, ""),
    VLine("uri", -1, "segment0.ts"),
    VLine("endlist", -1, ""), VLine("key", -1, ""), VLine("tag", -1, "") }

MaxLines == 4

\* test_capture_local_m3u8.py 45-58
VARIANT_720P == <<
    VLine("tag", -1, ""), VLine("tag", -1, ""), VLine("tag", -1, ""), VLine("tag", -1, ""),
    VLine("extinf", 10, ""), VLine("uri", -1, "segment0.ts"),
    VLine("extinf", 10, ""), VLine("uri", -1, "segment1.ts"),
    VLine("extinf", 10, ""), VLine("uri", -1, "segment2.ts"),
    VLine("extinf", 5, ""), VLine("uri", -1, "segment3.ts"),
    VLine("endlist", -1, "") >>

VariantTexts == SeqsUpTo(LinePool, MaxLines) \cup {VARIANT_720P}

\* Before the call: no dict yet
NoAnalysis == [is_vod |-> FALSE, total_seconds |-> -1, encrypted |-> FALSE, segments |-> <<>>]

\* app.py 325-339: the loop over the lines, from line i on, with last_dur
\* (-1 for None) and the segments and the total collected so far
RECURSIVE ScanLines(_, _, _, _, _)
ScanLines(variant_url, lines, i, last_dur, acc) ==
    IF i > Len(lines) THEN acc
    ELSE LET ln == lines[i]
         IN IF ln.t = "extinf"
            THEN ScanLines(variant_url, lines, i + 1, ln.dur, acc)
            ELSE IF ln.t = "uri" /\ last_dur # -1
            THEN ScanLines(variant_url, lines, i + 1, -1,
                           [segments |-> Append(acc.segments, <<last_dur, urljoin(variant_url, ln)>>),
                            total_seconds |-> acc.total_seconds + last_dur])
            ELSE ScanLines(variant_url, lines, i + 1, last_dur, acc)

\* A total that is returned for every playlist.
TotalAlways(is_vod, total_seconds) == total_seconds

\* app.py 343: total_seconds if is_vod else None
TotalIfVod(is_vod, total_seconds) == IF is_vod THEN total_seconds ELSE -1

analyze_variant(variant_url, lines) ==
    LET encrypted == \E i \in 1..Len(lines) : lines[i].t = "key"
        is_vod == \E i \in 1..Len(lines) : lines[i].t = "endlist"
        scanned == ScanLines(variant_url, lines, 1, -1, [segments |-> <<>>, total_seconds |-> 0])
    IN [is_vod |-> is_vod,
        total_seconds |-> TotalIfVod(is_vod, scanned.total_seconds),
        encrypted |-> encrypted,
        segments |-> scanned.segments]

(***************************************************************************)
(* m3u8_sniffer_utils.py: filter_and_prioritize_m3u8s (400-454) and        *)
(* select_best_variant (457-485), applied to a list of M3U8Info.           *)
(***************************************************************************)
\* KALTURA_CDN_REGEX.search(url) (utils 64-67, 130-142)
is_kaltura_url(u) == HasKalturaCom(u)

\* An M3U8Info (utils 310-323) as analyze_m3u8_url builds it for URL u at time
\* ts, with the two fields a caller can fill in afterwards; bandwidth -1 and
\* is_encrypted "none" stand for None.
M3U8Info(u, ts, bw, enc) ==
    [url |-> u, timestamp |-> ts,
     is_master |-> detect_master_vs_variant(u), is_kaltura |-> is_kaltura_url(u),
     bandwidth |-> bw, is_encrypted |-> enc]

\* The infos a list of the model is made of: a vendor master, a plain master,
\* the 720p (encrypted) and 1080p flavors of one entry with equal bandwidth, a
\* flavor with a higher bandwidth, and a later capture of the 720p URL.
InfoPool == {
    M3U8Info(UMasterSec, 1, -1, "none"),
    M3U8Info(UPlain, 1, -1, "none"),
    M3U8Info(UFlavor1, 1, 2000000, "yes"),
    M3U8Info(UFlavor2, 1, 2000000, "no"),
    M3U8Info(UFlavor3, 1, 5000000, "none"),
    M3U8Info(UFlavor1, 2, -1, "none") }

MaxList == 3

\* None, where an M3U8Info is expected
NoInfo == M3U8Info(NoUrl, 0, -1, "none")

\* A filter that keeps every element of the list.
KeepDuplicates(list) == list

\* utils 420-425: the first element of each URL, in list order
RECURSIVE UniqueByUrl(_)
UniqueByUrl(list) ==
    IF list = <<>> THEN <<>>
    ELSE LET front == UniqueByUrl(Front(list))
             m3u8 == Last(list)
         IN IF \E i \in 1..Len(front) : front[i].url = m3u8.url
            THEN front
            ELSE Append(front, m3u8)

\* False sorts before True
BoolRank(b) == IF b THEN 1 ELSE 0

\* A key whose bandwidth is not negated.
KeyBandwidthAscending(m3u8) ==
    <<BoolRank(~(m3u8.is_kaltura /\ m3u8.is_master)),
      BoolRank(~m3u8.is_master),
      IF m3u8.bandwidth = -1 THEN 0 ELSE m3u8.bandwidth,
      BoolRank(m3u8.is_encrypted = "yes")>>

\* utils 428-449
priority_key(m3u8) ==
    <<BoolRank(~(m3u8.is_kaltura /\ m3u8.is_master)),
      BoolRank(~m3u8.is_master),
      -(IF m3u8.bandwidth = -1 THEN 0 ELSE m3u8.bandwidth),
      BoolRank(m3u8.is_encrypted = "yes")>>

\* The order of Python's tuples: a < b
TupleLess(a, b) ==
    \E i \in 1..Len(a) : a[i] < b[i] /\ \A j \in 1..(i - 1) : a[j] = b[j]

\* sorted(unique_m3u8s, key=priority_key) (utils 451): stable, ascending
RECURSIVE InsertByKey(_, _)
InsertByKey(sorted, m3u8) ==
    IF sorted = <<>> THEN <<m3u8>>
    ELSE IF TupleLess(priority_key(m3u8), priority_key(sorted[1]))
         THEN <<m3u8>> \o sorted
         ELSE <<sorted[1]>> \o InsertByKey(Tail(sorted), m3u8)

RECURSIVE SortedByKey(_)
SortedByKey(list) ==
    IF list = <<>> THEN <<>> ELSE InsertByKey(SortedByKey(Front(list)), Last(list))

filter_and_prioritize_m3u8s(list) ==
    IF list = <<>> THEN <<>> ELSE SortedByKey(UniqueByUrl(list))

select_best_variant(list) ==
    IF list = <<>> THEN NoInfo ELSE filter_and_prioritize_m3u8s(list)[1]

\* No call of a pure helper is modelled
NoCall == [fn |-> "", x |-> ""]

UtilInit ==
    /\ upc = "call"
    /\ m3u8_list \in SeqsUpTo(InfoPool, MaxList)
    /\ prioritized = <<>>
    /\ best = NoInfo
    /\ variant_text = <<>>
    /\ analysis = NoAnalysis
    /\ arg = NoCall
    /\ ret = "none"

UtilIdle ==
    /\ upc = "idle"
    /\ m3u8_list = <<>>
    /\ prioritized = <<>>
    /\ best = NoInfo
    /\ variant_text = <<>>
    /\ analysis = NoAnalysis
    /\ arg = NoCall
    /\ ret = "none"

\* analyze_variant is about to be called for a playlist of the model
AnalyzeInit ==
    /\ upc = "fetched"
    /\ m3u8_list = <<>>
    /\ prioritized = <<>>
    /\ best = NoInfo
    /\ variant_text \in VariantTexts
    /\ analysis = NoAnalysis
    /\ arg = NoCall
    /\ ret = "none"

\* A call of filter_and_prioritize_m3u8s on the list
CallFilter ==
    /\ upc = "call"
    /\ prioritized' = filter_and_prioritize_m3u8s(m3u8_list)
    /\ upc' = "filtered"
    /\ UNCHANGED <<m3u8_list, best, variant_text, analysis, arg, ret>>
    /\ UNCHANGED <<procVars, obsVars, pollVars, batchVars>>

\* A call of select_best_variant on the same list
CallSelect ==
    /\ upc = "filtered"
    /\ best' = select_best_variant(m3u8_list)
    /\ upc' = "selected"
    /\ UNCHANGED <<m3u8_list, prioritized, variant_text, analysis, arg, ret>>
    /\ UNCHANGED <<procVars, obsVars, pollVars, batchVars>>

\* A call of analyze_variant whose fetch gave the lines of variant_text
CallAnalyze ==
    /\ upc = "fetched"
    /\ analysis' = analyze_variant(UFlavor1, variant_text)
    /\ upc' = "analysed"
    /\ UNCHANGED <<m3u8_list, prioritized, best, variant_text, arg, ret>>
    /\ UNCHANGED <<procVars, obsVars, pollVars, batchVars>>

(***************************************************************************)
(* parse_attribute_list (app.py 272-281).  An attribute list is a sequence *)
(* of tokens: names, values, "=", "," and the double quote.                *)
(***************************************************************************)
Quote == "\""

\* The attributes a tag line of the model is made of (test_capture_local_m3u8.py
\* 37: BANDWIDTH, RESOLUTION and a quoted CODECS with a comma inside).
AttrPool == {
    <<"BANDWIDTH", "=", "2000000">>,
    <<"AVERAGE-BANDWIDTH", "=", "5000000">>,
    <<"RESOLUTION", "=", "1280x720">>,
    <<"CODECS", "=", Quote, "avc1", ",", "mp4a", Quote>> }

MaxAttrs == 3

\* The attributes of a sequence, joined by commas
RECURSIVE JoinAttrs(_)
JoinAttrs(as) ==
    IF as = <<>> THEN <<>>
    ELSE IF Len(as) = 1 THEN as[1]
    ELSE as[1] \o <<",">> \o JoinAttrs(Tail(as))

\* The attribute lists of the model: up to MaxAttrs different attributes in
\* any order
AttrLists == {JoinAttrs(as) : as \in {t \in SeqsUpTo(AttrPool, MaxAttrs) : NoDup(t)}}

\* The string the tokens spell
RECURSIVE Spell(_)
Spell(tokens) == IF tokens = <<>> THEN "" ELSE tokens[1] \o Spell(Tail(tokens))

\* app.py 274: re.split(r',(?![^\"]*\")', s).  A comma splits unless a double
\* quote follows it somewhere in the rest of the string.
RECURSIVE SplitAttributes(_, _, _)
SplitAttributes(s, i, part) ==
    IF i > Len(s) THEN <<part>>
    ELSE IF s[i] = "," /\ \A j \in (i + 1)..Len(s) : s[j] # Quote
         THEN <<part>> \o SplitAttributes(s, i + 1, <<>>)
         ELSE SplitAttributes(s, i + 1, Append(part, s[i]))

\* app.py 275-280: the dict after one part; a dict is the sequence of its
\* <<key, value>> pairs in insertion order
PutAttribute(out, part) ==
    LET E == {i \in 1..Len(part) : part[i] = "="}
    IN IF E = {} THEN out
       ELSE LET e == CHOOSE i \in E : \A j \in E : i <= j
                k == Spell(SubSeq(part, 1, e - 1))
                raw == SubSeq(part, e + 1, Len(part))
                v == IF Len(raw) >= 1 /\ raw[1] = Quote /\ raw[Len(raw)] = Quote
                     THEN Spell(SubSeq(raw, 2, Len(raw) - 1))
                     ELSE Spell(raw)
                I == {i \in 1..Len(out) : out[i][1] = k}
            IN IF I = {} THEN Append(out, <<k, v>>)
               ELSE [out EXCEPT ![CHOOSE i \in I : TRUE] = <<k, v>>]

RECURSIVE PutAttributes(_, _)
PutAttributes(out, parts) ==
    IF parts = <<>> THEN out
    ELSE PutAttributes(PutAttribute(out, parts[1]), Tail(parts))

parse_attribute_list(s) == PutAttributes(<<>>, SplitAttributes(s, 1, <<>>))

\* attrs.get(k); "None" stands for None
AttrGet(attrs, k) ==
    LET I == {i \in 1..Len(attrs) : attrs[i][1] = k}
    IN IF I = {} THEN "None" ELSE attrs[CHOOSE i \in I : TRUE][2]

\* int() of an attribute value as app.py 307-309 uses it: -1 when the value
\* is None or empty (the `or` goes on), 0 when int() raises
AttrInt(v) ==
    CASE v \in {"None", ""} -> -1
      [] v = "2000000" -> 2000000
      [] v = "5000000" -> 5000000
      [] OTHER -> 0

\* app.py 304-315: the tag line with the attribute list s, as
\* list_variants_from_master reads it
StreamInf(s) ==
    LET attrs == parse_attribute_list(s)
        res == AttrGet(attrs, "RESOLUTION")
    IN InfLine(AttrInt(AttrGet(attrs, "AVERAGE-BANDWIDTH")),
               AttrInt(AttrGet(attrs, "BANDWIDTH")),
               IF res = "None" THEN "" ELSE res)

(***************************************************************************)
(* head_size (app.py 288-296) and estimate_bitrate_mbps (356-368).  A      *)
(* segment is <<duration in seconds, reply>>, the reply being what the     *)
(* server of the segment's URL answers to the HEAD request.  The estimate  *)
(* is in bits per second, -1 for None.                                     *)
(***************************************************************************)
HeadReply(status, cl, raises) == [status |-> status, cl |-> cl, raises |-> raises]

\* A segment of 1,250,000 bytes, one of length "0", a 404, a reply without
\* Content-Length and a request that times out
HeadReplies == {
    HeadReply(200, "1250000", FALSE), HeadReply(200, "0", FALSE),
    HeadReply(404, "1250000", FALSE), HeadReply(200, "None", FALSE),
    HeadReply(0, "None", TRUE) }

SegmentDurations == {0, 10}
MaxSegments == 4
sample_n == 3

SegmentLists == SeqsUpTo(SegmentDurations \X HeadReplies, MaxSegments)

\* app.py 289-296; -1 for None
head_size(reply) ==
    IF reply.raises THEN -1
    ELSE IF reply.status < 400
         THEN CASE reply.cl = "1250000" -> 1250000
                [] reply.cl = "0" -> 0
                [] OTHER -> -1
         ELSE -1

\* app.py 359-365: the loop over the samples
RECURSIVE SumSamples(_, _)
SumSamples(samples, acc) ==
    IF samples = <<>> THEN acc
    ELSE LET size == head_size(samples[1][2])
         IN SumSamples(Tail(samples),
                       IF size > 0
                       THEN [total_bytes |-> acc.total_bytes + size,
                             total_secs |-> acc.total_secs + samples[1][1]]
                       ELSE acc)

\* An estimate that samples every segment of the playlist.
EstimateOverAll(segments, n) ==
    LET sums == SumSamples(segments, [total_bytes |-> 0, total_secs |-> 0])
    IN [heads |-> Len(segments),
        bps |-> IF segments = <<>> \/ sums.total_secs = 0 \/ sums.total_bytes = 0 THEN -1
                ELSE (sums.total_bytes * 8) \div sums.total_secs]

\* app.py 356-368: the number of HEAD requests made and the value returned
\* (the sizes and durations of the model make the quotient a whole number)
estimate_bitrate_mbps(segments, n) ==
    LET samples == SubSeq(segments, 1, IF Len(segments) < n THEN Len(segments) ELSE n)
        sums == SumSamples(samples, [total_bytes |-> 0, total_secs |-> 0])
    IN [heads |-> Len(samples),
        bps |-> IF samples = <<>> \/ sums.total_secs = 0 \/ sums.total_bytes = 0 THEN -1
                ELSE (sums.total_bytes * 8) \div sums.total_secs]

(***************************************************************************)
(* guess_resolution_from_bitrate (app.py 370-378) and the resolution of a  *)
(* row (894-896).  Bitrates are in bits per second, -1 for None; ""        *)
(* stands for a resolution of None.                                        *)
(***************************************************************************)
\* A ladder whose steps begin above their thresholds.
GuessAboveThreshold(bps) ==
    IF bps = -1 THEN ""
    ELSE IF bps > 4500000 THEN "1920x1080"
    ELSE IF bps > 2500000 THEN "1280x720"
    ELSE IF bps > 1200000 THEN "854x480"
    ELSE IF bps > 800000 THEN "640x360"
    ELSE IF bps > 450000 THEN "426x240"
    ELSE "256x144"

guess_resolution_from_bitrate(bps) ==
    IF bps = -1 THEN ""
    ELSE IF bps >= 4500000 THEN "1920x1080"
    ELSE IF bps >= 2500000 THEN "1280x720"
    ELSE IF bps >= 1200000 THEN "854x480"
    ELSE IF bps >= 800000 THEN "640x360"
    ELSE IF bps >= 450000 THEN "426x240"
    ELSE "256x144"

\* The bitrates of the model: each threshold of the ladder, the value just
\* below it, the examples 5.0 and 0.5 Mbps, and None
Bitrates == {-1, 0, 449999, 450000, 500000, 799999, 800000, 1199999, 1200000,
             2499999, 2500000, 4499999, 4500000, 5000000}

\* app.py 894-896 for a variant with the declared bandwidth and resolution
\* and the estimate est: whether guess_resolution_from_bitrate is called,
\* with what, what it returns and the resolution of the row
RowResolution(bandwidth, resolution, est) ==
    LET est_mbps == IF bandwidth # 0 THEN bandwidth ELSE est
        guessed == guess_resolution_from_bitrate(est_mbps)
    IN [consulted |-> resolution = "",
        mbps |-> est_mbps,
        guessed |-> IF resolution = "" THEN guessed ELSE "",
        resolution |-> IF resolution # "" THEN resolution
                       ELSE IF guessed # "" THEN guessed ELSE "N/A"]

\* The state before and after a call of a pure helper
NoLists ==
    /\ m3u8_list = <<>>
    /\ prioritized = <<>>
    /\ best = NoInfo
    /\ variant_text = <<>>
    /\ analysis = NoAnalysis

Returns(fn, value) ==
    /\ upc = "pure"
    /\ arg.fn = fn
    /\ ret' = value
    /\ upc' = "returned"
    /\ UNCHANGED <<m3u8_list, prioritized, best, variant_text, analysis, arg>>
    /\ UNCHANGED <<procVars, obsVars, pollVars, batchVars>>

\* list_variants_from_master(master_url, referer) whose fetch of the master
\* gave the lines arg.x
CallListVariants ==
    Returns("list_variants_from_master", list_variants_from_master(UMasterSec, arg.x))

\* app.py 304-314 for a tag line with the attribute list arg.x: the dict of
\* parse_attribute_list and the bandwidth and resolution of the descriptor
CallParseAttributes ==
    Returns("parse_attribute_list",
            [attrs |-> parse_attribute_list(arg.x),
             bandwidth |-> DeclaredBandwidth(StreamInf(arg.x)),
             resolution |-> StreamInf(arg.x).res])

\* app.py 895: estimate_bitrate_mbps(a["segments"], referer, sample_n=3)
CallEstimate ==
    Returns("estimate_bitrate_mbps", estimate_bitrate_mbps(arg.x, sample_n))

\* clean_m3u8_url on arg.x, and on what that call returned
CallClean ==
    Returns("clean_m3u8_url",
            [once |-> clean_m3u8_url(arg.x),
             twice |-> clean_m3u8_url(clean_m3u8_url(arg.x))])

CallDetect ==
    Returns("detect_master_vs_variant", detect_master_vs_variant(arg.x))

\* extract_ids (app.py 898) and extract_kaltura_ids (utils 381) on the URL arg.x
CallExtractIds ==
    Returns("extract_ids", [app |-> extract_ids(arg.x), utils |-> extract_kaltura_ids(arg.x)])

\* app.py 894-896 for the variant and the estimate of arg.x
CallRowResolution ==
    Returns("guess_resolution_from_bitrate",
            RowResolution(arg.x.bandwidth, arg.x.resolution, arg.x.est))

CallIsM3u8Url ==
    Returns("is_m3u8_url", is_m3u8_url(arg.x))

\* playwright.py 52
BLOCKED_RESOURCE_TYPES == {"image", "font", "media", "stylesheet"}

\* A manifest served by a host of an advertising network.
UAdManifest == Url("ads.doubleclick.net", <<"live", "master.m3u8">>, <<>>)

\* BLOCKED_URL_REGEX.search(request_url) (playwright.py 55-66, 335): the hosts
\* of the model that one of the patterns matches
BLOCKED_URL_REGEX(u) == u.host \in {"ads.doubleclick.net"}

\* The requests a page of the model makes: URL and resource type.
RouteRequests ==
    [url : {UMasterSec, UFlavor1, RVariant, RSegment, UAdManifest},
     resource_type : {"document", "xhr", "fetch", "media", "image"}]

\* on_route (playwright.py 323-340): the calls it makes on the route, in order
on_route(request) ==
    IF request.resource_type \in BLOCKED_RESOURCE_TYPES THEN <<"abort">>
    ELSE IF BLOCKED_URL_REGEX(request.url) THEN <<"abort">>
    ELSE <<"continue_">>

CallOnRoute ==
    Returns("on_route", on_route(arg.x))

\* The classification functions of m3u8_sniffer_utils.py
ClassificationFunctions == {
    "is_m3u8_url", "is_hls_content_type", "is_kaltura_url", "is_kaltura_master_manifest",
    "detect_master_vs_variant", "extract_kaltura_ids", "clean_m3u8_url", "analyze_m3u8_url" }

\* What the call f(None) returns, or the exception it raises
RECURSIVE CalledWithNone(_)
CalledWithNone(f) ==
    CASE f \in {"is_m3u8_url", "is_hls_content_type", "is_kaltura_url",
                "is_kaltura_master_manifest"} -> "False"     \* `if not url: return False`
      [] f = "clean_m3u8_url" -> "None"                       \* utils 293-294: return url
      [] f = "detect_master_vs_variant" -> "AttributeError"   \* utils 341: url.lower()
      [] f = "extract_kaltura_ids" -> "TypeError"             \* utils 173: search(None)
      [] f = "analyze_m3u8_url" ->                            \* utils 378-381
            IF CalledWithNone("clean_m3u8_url") = "None"
            THEN CalledWithNone("detect_master_vs_variant")
            ELSE "M3U8Info"

\* A call of the classification function arg.x with None
CallWithNone ==
    Returns("None", CalledWithNone(arg.x))

PureInit ==
    /\ upc = "pure"
    /\ NoLists
    /\ ret = "none"
    /\ \/ arg \in {[fn |-> "list_variants_from_master", x |-> t] : t \in MasterTexts}
       \/ arg \in {[fn |-> "parse_attribute_list", x |-> s] : s \in AttrLists}
       \/ arg \in {[fn |-> "estimate_bitrate_mbps", x |-> segs] : segs \in SegmentLists}
       \/ arg \in {[fn |-> "clean_m3u8_url", x |-> u] : u \in CleanUrls}
       \/ arg \in {[fn |-> "detect_master_vs_variant", x |-> u] : u \in ClassifyUrls}
       \/ arg \in {[fn |-> "None", x |-> f] : f \in ClassificationFunctions}
       \/ arg \in {[fn |-> "extract_ids", x |-> u] : u \in ClassifyUrls}
       \/ arg \in {[fn |-> "is_m3u8_url", x |-> u] : u \in DetectionUrls}
       \/ arg \in {[fn |-> "on_route", x |-> r] : r \in RouteRequests}
       \/ arg \in {[fn |-> "guess_resolution_from_bitrate", x |-> v] :
                     v \in [bandwidth : Bitrates \ {-1}, resolution : {"", "1280x720"}, est : Bitrates]}

PureNext ==
    \/ CallListVariants
    \/ CallParseAttributes
    \/ CallEstimate
    \/ CallClean
    \/ CallDetect
    \/ CallWithNone
    \/ CallExtractIds
    \/ CallRowResolution
    \/ CallIsM3u8Url
    \/ CallOnRoute

UtilNext == CallFilter \/ CallSelect \/ CallAnalyze \/ PureNext

(***************************************************************************)
(* The specifications                                                      *)
(***************************************************************************)
ProcNext ==
    \/ TryPlaywright \/ SkipPlaywright \/ TrySeleniumCdp \/ SkipSeleniumCdp
    \/ TrySeleniumWire \/ FindMaster \/ ListVariants \/ DirectFallback
    \/ AnalyzeVariant \/ Rank

(***************************************************************************)
(* run_batch (app.py 1043-1126): the generator that submits one worker per *)
(* URL to a thread pool and drains the queue the workers put events on.    *)
(* Workers are numbered from 1 (idx + 1); every step of a worker that      *)
(* touches the queue, and every step of the generator, is one action.      *)
(***************************************************************************)
MaxUrls == 2           \* the longest list of URLs of a request
MaxProgress == 1       \* progress callbacks during the downloads of a request

\* The values of `concurrency` after app.py 1053 (0 and a missing value give 2).
Concurrencies == {-1, 2}

\* app.py 1099: max_workers=max(1, concurrency)
max_workers(c) == IF c > 1 THEN c ELSE 1

\* An event of the stream: the worker's number, its "type" and the statement
\* that put it (`by`: the download's or the fallback's callback, the download,
\* the fallback's announcement, the fallback).
Event(i, t, by) == [index |-> i, type |-> t, by |-> by]
\* app.py 1120: the event without an index
DoneEvent == Event(0, "done", "")

Workers == DOMAIN wpc
\* The workers a thread of the pool is running.
Running(w) == {i \in DOMAIN w : w[i] \in {"title", "ytdlp", "selenium", "exit"}}
\* The progress events the callbacks of app.py 1063 and 1085 have put.
Callbacks(es) == {k \in 1..Len(es) : es[k].by \in {"ytdlp_cb", "selenium_cb"}}

BatchInit ==
    /\ concurrency \in Concurrencies
    /\ futures = 0
    /\ wpc \in {[i \in 1..n |-> "new"] : n \in 1..MaxUrls}
    /\ q_events = <<>>
    /\ gpc = "submit"
    /\ alive = TRUE
    /\ puts = <<>>
    /\ emitted = <<>>

\* q.put(event) by worker i, who goes on to position p
Put(i, t, st, p) ==
    /\ q_events' = Append(q_events, Event(i, t, st))
    /\ puts' = Append(puts, Event(i, t, st))
    /\ wpc' = [wpc EXCEPT ![i] = p]
    /\ UNCHANGED <<concurrency, futures, gpc, alive, emitted>>
    /\ UNCHANGED <<procVars, obsVars, pollVars, utilVars>>

\* app.py 1099-1102: ex.submit(worker, idx, u) for the next URL; after the
\* last one the generator enters the loop of 1106
Submit ==
    /\ gpc = "submit"
    /\ futures < Len(wpc)
    /\ futures' = futures + 1
    /\ wpc' = [wpc EXCEPT ![futures + 1] = "queued"]
    /\ gpc' = IF futures + 1 = Len(wpc) THEN "get" ELSE "submit"
    /\ UNCHANGED <<concurrency, q_events, alive, puts, emitted>>
    /\ UNCHANGED <<procVars, obsVars, pollVars, utilVars>>

\* A thread of the pool takes the oldest submitted work item; the pool has at
\* most max_workers threads (app.py 1099).
BeginWorker(i) ==
    /\ i \in Workers
    /\ wpc[i] = "queued"
    /\ \A j \in 1..(i - 1) : wpc[j] # "queued"
    /\ Cardinality(Running(wpc)) < max_workers(concurrency)
    /\ wpc' = [wpc EXCEPT ![i] = "title"]
    /\ UNCHANGED <<concurrency, futures, q_events, gpc, alive, puts, emitted>>
    /\ UNCHANGED <<procVars, obsVars, pollVars, utilVars>>

\* app.py 1068-1069
PutTitle(i) ==
    /\ i \in Workers
    /\ wpc[i] = "title"
    /\ Put(i, "title", "", "ytdlp")

\* app.py 1061-1064: a progress callback of download_with_ytdlp
YtdlpProgress(i) ==
    /\ i \in Workers
    /\ wpc[i] = "ytdlp"
    /\ Cardinality(Callbacks(puts)) < MaxProgress
    /\ Put(i, "progress", "ytdlp_cb", "ytdlp")

\* app.py 1074-1076: download_with_ytdlp returned
YtdlpOk(i) ==
    /\ i \in Workers
    /\ wpc[i] = "ytdlp"
    /\ Put(i, "result", "ytdlp", "exit")

\* app.py 1077-1080: download_with_ytdlp raised
YtdlpFails(i) ==
    /\ i \in Workers
    /\ wpc[i] = "ytdlp"
    /\ Put(i, "progress", "fallback", "selenium")

\* app.py 1084-1085: a progress callback of process_single_url
SeleniumProgress(i) ==
    /\ i \in Workers
    /\ wpc[i] = "selenium"
    /\ Cardinality(Callbacks(puts)) < MaxProgress
    /\ Put(i, "progress", "selenium_cb", "selenium")

\* app.py 1087-1097: process_single_url returned a result (1089, 1092) or
\* raised (1097); each way one result event is put
SeleniumResult(i) ==
    /\ i \in Workers
    /\ wpc[i] = "selenium"
    /\ Put(i, "result", "selenium", "exit")

\* The worker function returns and its future is done.
WorkerReturns(i) ==
    /\ i \in Workers
    /\ wpc[i] = "exit"
    /\ wpc' = [wpc EXCEPT ![i] = "done"]
    /\ UNCHANGED <<concurrency, futures, q_events, gpc, alive, puts, emitted>>
    /\ UNCHANGED <<procVars, obsVars, pollVars, utilVars>>

\* app.py 1107-1111: q.get(timeout=0.2) returns the oldest event, which is
\* yielded, or times out on an empty queue
Get ==
    /\ gpc = "get"
    /\ IF q_events # <<>>
       THEN /\ emitted' = Append(emitted, Head(q_events))
            /\ q_events' = Tail(q_events)
       ELSE UNCHANGED <<emitted, q_events>>
    /\ gpc' = "check"
    /\ UNCHANGED <<concurrency, futures, wpc, alive, puts>>
    /\ UNCHANGED <<procVars, obsVars, pollVars, utilVars>>

\* app.py 1113: any(not f.done() for f in futures)
StillAlive(w) == \E i \in DOMAIN w : w[i] # "done"

\* app.py 1106, 1113
Check ==
    /\ gpc = "check"
    /\ alive' = StillAlive(wpc)
    /\ gpc' = IF StillAlive(wpc) THEN "get" ELSE "shutdown"
    /\ UNCHANGED <<concurrency, futures, wpc, q_events, puts, emitted>>
    /\ UNCHANGED <<procVars, obsVars, pollVars, utilVars>>

\* app.py 1099: the end of the `with` waits for every worker
Shutdown ==
    /\ gpc = "shutdown"
    /\ \A i \in Workers : wpc[i] = "done"
    /\ gpc' = "flush"
    /\ UNCHANGED <<concurrency, futures, wpc, q_events, alive, puts, emitted>>
    /\ UNCHANGED <<procVars, obsVars, pollVars, utilVars>>

\* A generator that does not look at the queue again after its loop.
FlushNever(es) == FALSE

\* app.py 1116: `while not q.empty()`
FlushGoesOn(es) == es # <<>>

\* app.py 1116-1118
Flush ==
    /\ gpc = "flush"
    /\ IF FlushGoesOn(q_events)
       THEN /\ emitted' = Append(emitted, Head(q_events))
            /\ q_events' = Tail(q_events)
            /\ UNCHANGED gpc
       ELSE /\ gpc' = "done"
            /\ UNCHANGED <<emitted, q_events>>
    /\ UNCHANGED <<concurrency, futures, wpc, alive, puts>>
    /\ UNCHANGED <<procVars, obsVars, pollVars, utilVars>>

\* app.py 1120
EmitDone ==
    /\ gpc = "done"
    /\ emitted' = Append(emitted, DoneEvent)
    /\ gpc' = "end"
    /\ UNCHANGED <<concurrency, futures, wpc, q_events, alive, puts>>
    /\ UNCHANGED <<procVars, obsVars, pollVars, utilVars>>

BatchNext ==
    \/ Submit \/ Get \/ Check \/ Shutdown \/ Flush \/ EmitDone
    \/ \E i \in 1..MaxUrls :
         \/ BeginWorker(i) \/ PutTitle(i) \/ YtdlpProgress(i) \/ YtdlpOk(i) \/ YtdlpFails(i)
         \/ SeleniumProgress(i) \/ SeleniumResult(i) \/ WorkerReturns(i)

BatchIdle ==
    /\ concurrency = 0
    /\ futures = 0
    /\ wpc = <<>>
    /\ q_events = <<>>
    /\ gpc = "idle"
    /\ alive = FALSE
    /\ puts = <<>>
    /\ emitted = <<>>

Init == ProcInit /\ ObsIdle /\ PollIdle /\ UtilIdle /\ BatchIdle
Next == ProcNext
Spec == Init /\ [][Next]_vars

SessionInit ==
    \/ ProcIdle /\ ObsInit /\ PollIdle /\ UtilIdle /\ BatchIdle
    \/ ProcIdle /\ ObsIdle /\ PollInit /\ UtilIdle /\ BatchIdle
SessionNext == ObsNext \/ PollNext
SpecSession == SessionInit /\ [][SessionNext]_vars

BatchStart == ProcIdle /\ ObsIdle /\ PollIdle /\ UtilIdle /\ BatchInit
SpecBatch == BatchStart /\ [][BatchNext]_vars

UtilsInit == ProcIdle /\ ObsIdle /\ PollIdle /\ BatchIdle /\ (UtilInit \/ AnalyzeInit \/ PureInit)
SpecUtils == UtilsInit /\ [][UtilNext]_vars

(***************************************************************************)
(* Properties of the capture chain and of process_single_url (Spec)        *)
(***************************************************************************)
BackendRank(b) == CASE b = "pw" -> 1 [] b = "cdp" -> 2 [] OTHER -> 3
BackendEnabled(b) ==
    CASE b = "pw" -> PLAYWRIGHT_ENABLED [] b = "cdp" -> SELENIUM_CDP_ENABLED [] OTHER -> TRUE
CapturePcs == {"pw", "cdp", "wire"}
\* The backend the chain turns to after lightweight backend b.
NextAvailable(b) == IF b = "pw" /\ SELENIUM_CDP_ENABLED THEN "cdp" ELSE "wire"

\* C1: the backends are started in the order Playwright, Selenium-CDP,
\* selenium-wire; when a backend is started, every earlier backend has
\* returned an empty result, has failed, or is disabled; and a backend that
\* returned a non-empty result is the last one started.
C1_ChainOrder ==
    /\ \A i \in 1..Len(started) : \A j \in 1..Len(started) :
         i < j => BackendRank(started[i]) < BackendRank(started[j])
    /\ \A i \in 1..Len(started) : \A b \in Backends :
         BackendRank(b) < BackendRank(started[i]) =>
            \/ outcome[b] \in {"empty", "raised"}
            \/ outcome[b] = "none" /\ ~BackendEnabled(b)
    /\ \A i \in 1..Len(started) : outcome[started[i]] = "found" => i = Len(started)

\* All three backends were started, one after the other, and the last one
\* captured something.
C1_Witness ==
    /\ started = <<"pw", "cdp", "wire">>
    /\ outcome["pw"] = "empty"
    /\ outcome["wire"] = "found"

C9_MasterFailureFallsBack == pc = "done" => result \in {"ok", "error"}

\* C10: a failed variant is skipped and nothing else: the loop visits the
\* variants one by one in list order up to the end of the list, and the rows
\* are, in that order, one row for each variant analysed successfully.
C10_FailedVariantSkipped ==
    (pc = "analyze" \/ (pc = "done" /\ errorAt \in {"", "novariants"})) =>
        /\ Len(analysed) = vi - 1
        /\ vi <= Len(variants) + 1
        /\ pc = "done" => vi = Len(variants) + 1
        /\ pc = "analyze" =>
             /\ Len(rows) = Cardinality({i \in 1..Len(analysed) : analysed[i] = "ok"})
             /\ \A k \in 1..Len(rows) :
                  /\ rows[k].origin \in 1..Len(analysed)
                  /\ analysed[rows[k].origin] = "ok"
                  /\ rows[k].playlist = variants[rows[k].origin].playlist
             /\ \A k \in 1..Len(rows) : \A l \in 1..Len(rows) :
                  k < l => rows[k].origin < rows[l].origin

\* The first variant of three failed, the other two were analysed and gave
\* the two rows.
C10_Witness ==
    /\ pc = "analyze"
    /\ Len(variants) = 3 /\ vi = 4
    /\ analysed = <<"failed", "ok", "ok">>
    /\ Len(rows) = 2

\* C11 as stated: a finished call of process_single_url has returned a
\* result value, whatever failed on the way (capture, master listing, variant
\* analysis, ranking), and the result is the failure result when no variant
\* was analysed.
C11_AlwaysReturnsResult ==
    pc = "done" =>
        /\ result # "exception"
        /\ (\A i \in 1..Len(analysed) : analysed[i] # "ok") => result = "error"

\* C12: the candidate list is non-empty only if a variant playlist was fetched
\* and analysed successfully: every row, up to and in the final list, comes
\* from a variant of the list whose analysis succeeded and carries that
\* variant's playlist, and a call that ends with a non-empty list ends "ok".
C12_RowsOnlyFromAnalysedVariants ==
    /\ rows # <<>> => \E i \in 1..Len(analysed) : analysed[i] = "ok"
    /\ \A k \in 1..Len(rows) :
         /\ rows[k].origin \in 1..Len(analysed)
         /\ analysed[rows[k].origin] = "ok"
         /\ rows[k].origin <= Len(variants)
         /\ rows[k].playlist = variants[rows[k].origin].playlist
    /\ (pc = "done" /\ result = "ok") => rows # <<>>
    /\ (pc = "done" /\ errorAt = "novariants") => rows = <<>>

\* A finished call whose first variant failed and whose final list holds the
\* rows of the other two.
C12_Witness ==
    /\ pc = "done" /\ result = "ok"
    /\ analysed = <<"failed", "ok", "ok">>
    /\ Len(rows) = 2

\* C13: the final candidate list is in descending order of the sort key, rows
\* with equal keys are in the order in which their variants were discovered
\* (the sort is stable), and a row with declared bandwidth 5,000,000 stands
\* ahead of every row with 2,000,000.
C13_DescendingStable ==
    (pc = "done" /\ errorAt \in {"", "novariants"}) =>
        \A k \in 1..Len(rows) : \A l \in 1..Len(rows) :
            /\ k < l => rows[k].sort_bps >= rows[l].sort_bps
            /\ (k < l /\ rows[k].sort_bps = rows[l].sort_bps) => rows[k].origin < rows[l].origin
            /\ (rows[k].declared /\ rows[l].declared
                /\ rows[k].sort_bps = 5000000 /\ rows[l].sort_bps = 2000000) => k < l

\* The master declared 2,000,000, 5,000,000 and 2,000,000: the second variant
\* is first in the final list and the two others follow in discovery order.
C13_Witness ==
    /\ pc = "done" /\ result = "ok"
    /\ Len(rows) = 3
    /\ <<rows[1].origin, rows[2].origin, rows[3].origin>> = <<2, 1, 3>>
    /\ <<rows[1].sort_bps, rows[2].sort_bps, rows[3].sort_bps>> = <<5000000, 2000000, 2000000>>

\* The rows before and after the filter of app.py 915-917 are the rows of
\* the step that ends the ranking.
RankStep == pc = "analyze" /\ pc' = "done"
\* The entry identifiers among rows rs, the rows of entry e, and the longest
\* VOD total duration among e's rows (-1 when none of them is a VOD).
EntryIds(rs) == {rs[k].entryId : k \in 1..Len(rs)} \ {""}
RowsOf(rs, e) == {k \in 1..Len(rs) : rs[k].entryId = e}
MaxVod(rs, e) ==
    LET D == {rs[k].duration_seconds : k \in RowsOf(rs, e)}
    IN CHOOSE d \in D : \A x \in D : x <= d
Origins(rs, K) == {rs[k].origin : k \in K}
\* The rows of rs2 are those of entry e in rs, each once.
KeepsEntry(rs, rs2, e) ==
    /\ Origins(rs2, 1..Len(rs2)) = Origins(rs, RowsOf(rs, e))
    /\ Len(rs2) = Cardinality(RowsOf(rs, e))

\* C14 as stated: whenever rows of more than one entry identifier are present,
\* the rows retained are exactly those of an entry whose maximum VOD total
\* duration is the greatest of all entries; the rows of every other entry are
\* removed.
C14_OnlyLongestEntryKept ==
    [][RankStep =>
         (Cardinality(EntryIds(rows)) > 1 =>
            \E e \in EntryIds(rows) :
                /\ \A f \in EntryIds(rows) : MaxVod(rows, f) <= MaxVod(rows, e)
                /\ KeepsEntry(rows, rows', e))]_vars

\* C14, amended: when some row with an entry identifier has a VOD total
\* duration, the rows retained are exactly those of an entry whose maximum
\* VOD total duration is the greatest (all other rows are removed, those
\* without an entry identifier included); when no row has one, no row is
\* removed, whatever the number of entries.
C14_LongestEntryKeptIfAnyVod ==
    [][RankStep =>
         IF \E e \in EntryIds(rows) : MaxVod(rows, e) > 0
         THEN \E e \in EntryIds(rows) :
                /\ MaxVod(rows, e) > 0
                /\ \A f \in EntryIds(rows) : MaxVod(rows, f) <= MaxVod(rows, e)
                /\ KeepsEntry(rows, rows', e)
         ELSE /\ Origins(rows', 1..Len(rows')) = Origins(rows, 1..Len(rows))
              /\ Len(rows') = Len(rows)]_vars

\* Entry E1 had a VOD of 600 s and entry E2 one of 30 s, both were analysed,
\* and the final list holds the rows of E1 only.
C14_Witness ==
    /\ pc = "done" /\ result = "ok"
    /\ dur_by_entry = << <<"E1", 600>>, <<"E2", 30>> >>
    /\ \E i \in 1..Len(analysed) :
          analysed[i] = "ok" /\ extract_ids(variants[i].playlist)[1] = "E2"
    /\ rows # <<>>
    /\ \A k \in 1..Len(rows) : rows[k].entryId = "E1"

\* The entries of rs whose maximum VOD total duration is the greatest one.
Longest(rs) ==
    {e \in EntryIds(rs) :
        /\ MaxVod(rs, e) > 0
        /\ \A f \in EntryIds(rs) : MaxVod(rs, f) <= MaxVod(rs, e)}
\* The first row of entry e, and its first row with a VOD total duration.
FirstRow(rs, e) == CHOOSE k \in RowsOf(rs, e) : \A l \in RowsOf(rs, e) : k <= l
FirstVodRow(rs, e) ==
    LET K == {k \in RowsOf(rs, e) : rs[k].duration_seconds > 0}
    IN CHOOSE k \in K : \A l \in K : k <= l

\* C15 as stated: when two entries have the same maximum VOD total duration
\* (the greatest one), the rows kept are those of the entry that comes first
\* in discovery order, the entry of the earlier row.
C15_FirstDiscoveredWinsTie ==
    [][RankStep =>
         \A e \in Longest(rows) : \A f \in Longest(rows) :
             (e # f /\ FirstRow(rows, e) < FirstRow(rows, f)) => ~KeepsEntry(rows, rows', f)]_vars

\* C15, amended: of the entries that share the greatest maximum VOD total
\* duration, the one kept is the entry whose first row with a VOD total
\* duration comes first in discovery order; the others are dropped.
C15_FirstVodRowWinsTie ==
    [][RankStep =>
         \A e \in Longest(rows) :
             (\A f \in Longest(rows) : FirstVodRow(rows, e) <= FirstVodRow(rows, f))
                => /\ KeepsEntry(rows, rows', e)
                   /\ \A f \in Longest(rows) \ {e} : \A k \in 1..Len(rows') : rows'[k].entryId # f]_vars

\* Entries E1 and E2 both had 600 s, E1 first; both were analysed and the
\* final list holds the rows of E1 only.
C15_Witness ==
    /\ pc = "done" /\ result = "ok"
    /\ dur_by_entry = << <<"E1", 600>>, <<"E2", 600>> >>
    /\ \E i \in 1..Len(analysed) :
          analysed[i] = "ok" /\ extract_ids(variants[i].playlist)[1] = "E2"
    /\ rows # <<>>
    /\ \A k \in 1..Len(rows) : rows[k].entryId = "E1"

\* C19: the sort key of a row is the bandwidth its variant declares when it
\* declares one (and the bitrate label shows that value), whatever the
\* estimate would be; otherwise it is the estimate when there is one (the
\* label shows it as an estimate), and otherwise 0.
C19_DeclaredThenEstimateThenZero ==
    \A k \in 1..Len(rows) :
        /\ rows[k].origin \in 1..Len(variants)
        /\ LET v == variants[rows[k].origin]
           IN IF v.bandwidth # 0
              THEN /\ rows[k].sort_bps = v.bandwidth
                   /\ rows[k].bitrate = <<"declared", v.bandwidth>>
              ELSE \/ /\ rows[k].bitrate[1] = "estimate"
                      /\ rows[k].bitrate[2] \in Estimates \ {-1}
                      /\ rows[k].sort_bps = rows[k].bitrate[2]
                   \/ /\ rows[k].bitrate = <<"N/A", 0>>
                      /\ rows[k].sort_bps = 0

\* Two variants with a declared bandwidth and one without, for which the
\* estimate gave 1,500,000.
C19_Witness ==
    /\ pc = "analyze"
    /\ Len(rows) = 3
    /\ variants[1].bandwidth = 2000000 /\ rows[1].sort_bps = 2000000
    /\ variants[3].bandwidth = 0
    /\ rows[3].bitrate = <<"estimate", 1500000>>
    /\ rows[3].sort_bps = 1500000

(***************************************************************************)
(* Properties of the capture sessions (SpecSession)                        *)
(***************************************************************************)
CheckInterval == IF backend = "pw" THEN PwCheckInterval ELSE CdpCheckInterval
\* The wait budget of the observer is used up.
BudgetUsedUp ==
    IF backend = "pw" THEN elapsed >= WaitAfterLoad ELSE now - start_time >= WaitAfterLoad
UrlsOf(list) == {list[i].url : i \in 1..Len(list)}

\* C3 as stated: once poll_m3u8_optimized has returned or raised, its click
\* thread has ended and no click step runs or has run since.
C3_ClickThreadEnded ==
    (session = "opt" /\ SessionOver) => (tpc = "exited" /\ clicksAfterReturn = 0)

PhaseTimeout(m) ==
    CASE m = "wait_master" -> MaxSeconds
      [] m = "wait_any" -> FallbackTimeout
      [] m = "grace" -> GraceSleep
      [] m \in {"join", "join_raising"} -> JoinTimeout
      [] OTHER -> 0
PhaseRank(m) ==
    CASE m = "init" -> 0
      [] m = "wait_master" -> 1
      [] m = "wait_any" -> 2
      [] m = "grace" -> 3
      [] m \in {"join", "join_raising"} -> 4
      [] m \in {"returned", "raised"} -> 5
      [] OTHER -> 6

\* What holds at every position of a session: the bounds on its waits, and
\* that the step out of the position is enabled.
C5_Positions ==
    /\ backend # "idle" =>
         /\ opc = "nav" => now - navStart <= NavTimeout
         /\ waitSteps > 0 => (waitSteps - 1) * CheckInterval < WaitAfterLoad
         /\ opc = "start" => ENABLED StartSession
         /\ opc = "nav" => ENABLED NavEnd
         /\ opc = "wait" => ENABLED (PwCheck \/ CdpCheck)
         /\ opc = "sleep" => ENABLED Sleep
         /\ opc = "close" => ENABLED Return
         /\ opc \in {"start", "nav", "wait", "sleep", "close", "returned", "raised",
                     "stopped", "got", "restarted"}
    /\ session = "opt" =>
         /\ fgLeft \in 0..PhaseTimeout(mpc)
         /\ mpc = "init" => ENABLED StartThread
         /\ mpc \in {"wait_master", "wait_any", "grace", "join", "join_raising"} =>
              ENABLED (Tick \/ ThreadClickDone \/ ThreadSleepDone \/ ThreadCheck
                       \/ MasterTimedOut \/ MasterMatched \/ FallbackResolved \/ Collect \/ Joined)
         /\ mpc \in {"init", "wait_master", "wait_any", "grace", "join", "join_raising",
                      "returned", "raised", "quit"}
    /\ session = "poll" =>
         /\ pollSteps * PollFastInterval <= MaxSeconds
         /\ mpc \in {"init", "loop"} => ENABLED PollIterate
         /\ mpc = "poll_sleep" => ENABLED PollSleep
         /\ mpc \in {"init", "loop", "poll_sleep", "returned"}

\* What every step of a session does: the foreground of poll_m3u8_optimized
\* moves forward in the order of its positions or uses up the timeout of the
\* wait it is in, an observer moves along its positions, and a sleep of the
\* wait loop is counted once (the count starts again with the next page of a
\* reused manager).
C5_Steps ==
    /\ session = "opt" /\ ~SessionOver =>
         IF mpc' # mpc
         THEN PhaseRank(mpc') > PhaseRank(mpc)
         ELSE fgLeft' <= fgLeft /\ (Tick => fgLeft' < fgLeft)
    /\ opc' # opc => opc' \in
         CASE opc = "start" -> {"nav", "raised"}
           [] opc = "nav" -> {"wait"}
           [] opc = "wait" -> {"sleep", "close"}
           [] opc = "sleep" -> {"wait"}
           [] opc = "close" -> {"returned"}
           [] opc = "returned" -> {"nav", "stopped"}
           [] OTHER -> {"got", "restarted"}
    /\ waitSteps' # waitSteps =>
         \/ waitSteps' = waitSteps + 1 /\ opc = "sleep"
         \/ waitSteps' = 0 /\ opc = "returned"

\* C5: every session ends after a number of wait steps bounded by its
\* timeouts.  The navigation of an observer blocks for at most `timeout` and
\* its wait loop sleeps at most ceil(wait_after_load / check_interval) times,
\* once per round.  The foreground of poll_m3u8_optimized goes through its
\* waits in one order, each at most once, every tick it waits is taken from
\* the timeout of the wait it is in (max_seconds, 10 s, 0.5 s, 1 s), and
\* poll_m3u8 sleeps at most max_seconds / 0.1 s times.  A session that has not
\* returned can always take a step of its own (no response or request is
\* needed for it).
C5_BoundedWaits == []C5_Positions /\ [][C5_Steps]_vars

\* A Selenium-CDP session with no response at all has used its whole wait
\* budget and returned.
C5_Witness ==
    /\ backend = "cdp" /\ opc = "returned"
    /\ nResponses = 0
    /\ waitSteps * CdpCheckInterval >= WaitAfterLoad

\* C6 as stated: a session that has observed a master stops no earlier than
\* one second after the detection.
C6_FullSecondAfterMaster ==
    (waitEnd # -1 /\ master_found_time # -1) => waitEnd - master_found_time >= GraceTicks

\* C6, amended: a session leaves its wait loop at the first check made more
\* than one second after the detection of a master, or when the wait budget
\* is used up, whichever comes first: it never begins another sleep more than
\* a second after the detection, and it leaves the loop with budget left only
\* when more than a second has passed since the detection.
C6_StopsAfterGraceOrBudget ==
    /\ (opc = "sleep" /\ master_found_time # -1) => now - master_found_time <= GraceTicks
    /\ (waitEnd # -1 /\ ~BudgetUsedUp) =>
          (master_found_time # -1 /\ waitEnd - master_found_time > GraceTicks)
    /\ (waitEnd # -1 /\ master_found_time # -1 /\ waitEnd - master_found_time <= GraceTicks) =>
          BudgetUsedUp

\* A session that saw a master left its wait loop early, with budget left.
C6_Witness ==
    /\ opc = "returned"
    /\ master_found_time # -1
    /\ waitEnd - master_found_time > GraceTicks
    /\ ~BudgetUsedUp
    /\ Len(found_m3u8s) = 2

\* C7 as stated: the list a session returns never holds two entries with the
\* same cleaned URL.
C7_NoDuplicateUrls ==
    opc = "returned" =>
        \A i \in 1..Len(found_m3u8s) : \A j \in 1..Len(found_m3u8s) :
            i # j => found_m3u8s[i].url # found_m3u8s[j].url

\* C8 as stated: every successful manifest response produced between the
\* start of the navigation and the end of the wait is in the returned list,
\* by its cleaned URL.
C8_EveryResponseRecorded == opc = "returned" => occurred \subseteq UrlsOf(found_m3u8s)

\* C18 as stated: when poll_m3u8_optimized returns a master URL together
\* with captured headers, the headers are those of a recorded request for the
\* returned master URL (the request object they were read from has that URL).
C18_HeadersOfReturnedMaster ==
    (session = "opt" /\ mpc \in {"returned", "quit"}
     /\ poll_master_url # NoUrl /\ master_request # NoUrl)
        => master_request = poll_master_url

(***************************************************************************)
(* Properties of the capture-time prioritization (SpecUtils)               *)
(***************************************************************************)
\* m3u8.bandwidth or 0
BandwidthOr0(m3u8) == IF m3u8.bandwidth = -1 THEN 0 ELSE m3u8.bandwidth

\* The position of the first element of list with URL u.
FirstIndex(list, u) ==
    CHOOSE i \in 1..Len(list) : list[i].url = u /\ \A j \in 1..(i - 1) : list[j].url # u

\* C16: the list filter_and_prioritize_m3u8s returns is in ascending order of
\* the tuple (not vendor master, not master, minus the bandwidth or 0,
\* encrypted), elements with equal tuples in discovery order: a vendor master
\* stands before every other element, a master before every non-master, of
\* two non-masters the one with the higher bandwidth first and, with equal
\* bandwidth, the unencrypted one first; select_best_variant returns the first
\* element of that list, None for the empty list.
C16_PriorityOrder ==
    upc \in {"filtered", "selected"} =>
        /\ \A k \in 1..Len(prioritized) : \A l \in 1..Len(prioritized) :
             LET a == prioritized[k]
                 b == prioritized[l]
             IN /\ k < l => ~TupleLess(priority_key(b), priority_key(a))
                /\ (k < l /\ priority_key(a) = priority_key(b)) =>
                      FirstIndex(m3u8_list, a.url) < FirstIndex(m3u8_list, b.url)
                /\ (a.is_kaltura /\ a.is_master /\ ~(b.is_kaltura /\ b.is_master)) => k < l
                /\ (a.is_master /\ ~b.is_master) => k < l
                /\ (~a.is_master /\ ~b.is_master /\ BandwidthOr0(a) > BandwidthOr0(b)) => k < l
                /\ (~a.is_master /\ ~b.is_master /\ a.bandwidth = b.bandwidth
                    /\ a.is_encrypted = "no" /\ b.is_encrypted = "yes") => k < l
        /\ upc = "selected" =>
             best = IF m3u8_list = <<>> THEN NoInfo ELSE prioritized[1]

\* The 720p (encrypted) flavor, the 1080p flavor and their master were
\* captured in this order; the master is first, then 1080p, then 720p, and
\* the master is the best variant.
C16_Witness ==
    /\ upc = "selected"
    /\ Len(m3u8_list) = 3
    /\ <<m3u8_list[1].url, m3u8_list[2].url, m3u8_list[3].url>> = <<UFlavor1, UFlavor2, UMasterSec>>
    /\ m3u8_list[1].is_encrypted = "yes"
    /\ <<prioritized[1].url, prioritized[2].url, prioritized[3].url>> = <<UMasterSec, UFlavor2, UFlavor1>>
    /\ best.url = UMasterSec

\* C17: filter_and_prioritize_m3u8s removes exact-URL duplicates: its output
\* holds every URL of the input and no other, each URL once, and the element
\* that stands for a URL is the first element of the input with that URL.
C17_FirstOccurrenceOnce ==
    upc \in {"filtered", "selected"} =>
        /\ {prioritized[k].url : k \in 1..Len(prioritized)} = {m3u8_list[i].url : i \in 1..Len(m3u8_list)}
        /\ \A k \in 1..Len(prioritized) : \A l \in 1..Len(prioritized) :
             prioritized[k].url = prioritized[l].url => k = l
        /\ \A k \in 1..Len(prioritized) :
             prioritized[k] = m3u8_list[FirstIndex(m3u8_list, prioritized[k].url)]

\* The 720p URL was captured at time 1, then the master, then the 720p URL
\* again at time 2: the output holds the master and the capture of time 1.
C17_Witness ==
    /\ upc = "filtered"
    /\ Len(m3u8_list) = 3
    /\ <<m3u8_list[1].url, m3u8_list[2].url, m3u8_list[3].url>> = <<UFlavor1, UMasterSec, UFlavor1>>
    /\ <<m3u8_list[1].timestamp, m3u8_list[3].timestamp>> = <<1, 2>>
    /\ Len(prioritized) = 2
    /\ prioritized[2] = m3u8_list[1]

(***************************************************************************)
(* Properties of analyze_variant (SpecUtils)                               *)
(***************************************************************************)
\* The segment lines that get a duration: the nearest #EXTINF or segment
\* line before line j is an #EXTINF line with a number.
DurationLine(lines, j) ==
    CHOOSE i \in 0..(j - 1) :
        /\ i > 0 => lines[i].t \in {"extinf", "uri"}
        /\ \A m \in (i + 1)..(j - 1) : lines[m].t \notin {"extinf", "uri"}
PairedLines(lines) ==
    {j \in 1..Len(lines) :
        /\ lines[j].t = "uri"
        /\ DurationLine(lines, j) > 0
        /\ lines[DurationLine(lines, j)].t = "extinf"
        /\ lines[DurationLine(lines, j)].dur # -1}
\* The k-th element of the set of line numbers J.
NthLine(J, k) == CHOOSE j \in J : Cardinality({x \in J : x <= j}) = k
RECURSIVE SumDurations(_)
SumDurations(segments) ==
    IF segments = <<>> THEN 0 ELSE segments[1][1] + SumDurations(Tail(segments))

\* C20: analyze_variant reports is_vod exactly when a line is #EXT-X-ENDLIST;
\* total_seconds is None for a playlist that is no VOD and the sum of the
\* durations of the returned (duration, segment) pairs for a VOD; the pairs
\* are, in order, the segment lines that follow an #EXTINF line (comment and
\* blank lines apart), each with that line's duration and its URL resolved
\* against the variant URL; the four durations 10, 10, 10, 5 of the test
\* playlist give 35.
C20_VodTotalIsSumOfPairs ==
    upc = "analysed" =>
        /\ analysis.is_vod <=> \E i \in 1..Len(variant_text) : variant_text[i].t = "endlist"
        /\ ~analysis.is_vod => analysis.total_seconds = -1
        /\ analysis.is_vod => analysis.total_seconds = SumDurations(analysis.segments)
        /\ Len(analysis.segments) = Cardinality(PairedLines(variant_text))
        /\ \A k \in 1..Len(analysis.segments) :
             LET j == NthLine(PairedLines(variant_text), k)
             IN analysis.segments[k] = <<variant_text[DurationLine(variant_text, j)].dur, urljoin(UFlavor1, variant_text[j])>>
        /\ variant_text = VARIANT_720P => analysis.is_vod /\ analysis.total_seconds = 35

\* The playlist of the test, with durations 10, 10, 10 and 5 and the end tag,
\* was analysed: a VOD of 35 seconds with four segments.
C20_Witness ==
    /\ upc = "analysed"
    /\ variant_text = VARIANT_720P
    /\ analysis.is_vod
    /\ analysis.total_seconds = 35
    /\ Len(analysis.segments) = 4

(***************************************************************************)
(* Properties of list_variants_from_master and parse_attribute_list        *)
(* (SpecUtils)                                                             *)
(***************************************************************************)
Returned(fn) == upc = "returned" /\ arg.fn = fn

\* The #EXT-X-STREAM-INF lines of a text, in file order
RECURSIVE TagIndexes(_, _)
TagIndexes(lines, i) ==
    IF i > Len(lines) THEN <<>>
    ELSE (IF lines[i].t = "inf" THEN <<i>> ELSE <<>>) \o TagIndexes(lines, i + 1)

\* The index of the next non-blank line after line i (0: there is none)
NextNonBlank(lines, i) ==
    LET J == {j \in (i + 1)..Len(lines) : lines[j].t # "blank"}
    IN IF J = {} THEN 0 ELSE CHOOSE j \in J : \A k \in J : j <= k

\* C21: list_variants_from_master returns exactly one descriptor per
\* #EXT-X-STREAM-INF line of the master text, in file order, and the playlist
\* of each descriptor is the next non-blank line after its tag, resolved
\* against the master URL.
C21_OnePerTagNextNonBlank ==
    Returned("list_variants_from_master") =>
        LET tags == TagIndexes(arg.x, 1)
        IN /\ Len(ret) = Len(tags)
           /\ \A k \in 1..Len(tags) :
                 /\ NextNonBlank(arg.x, tags[k]) # 0
                 /\ ret[k].playlist = urljoin(UMasterSec, arg.x[NextNonBlank(arg.x, tags[k])])

\* The attributes of a list: its parts between the commas that lie outside
\* double quotes (those with an even number of quotes before them)
RECURSIVE AttrsOf(_, _, _, _)
AttrsOf(s, i, part, inside) ==
    IF i > Len(s) THEN <<part>>
    ELSE IF s[i] = "," /\ ~inside
         THEN <<part>> \o AttrsOf(s, i + 1, <<>>, inside)
         ELSE AttrsOf(s, i + 1, Append(part, s[i]), IF s[i] = Quote THEN ~inside ELSE inside)

\* The value of an attribute k = v or k = "v"
ValueOf(attr) ==
    IF attr[3] = Quote THEN Spell(SubSeq(attr, 4, Len(attr) - 1)) ELSE Spell(SubSeq(attr, 3, Len(attr)))

\* C22: parse_attribute_list splits at exactly the commas outside double
\* quotes, whatever the order of quoted and unquoted attributes: every
\* attribute's key maps to its own value without the quotes, and the
\* bandwidth obtained is AVERAGE-BANDWIDTH if present, else BANDWIDTH, else 0.
C22_SplitsOutsideQuotes ==
    Returned("parse_attribute_list") =>
        LET as == IF arg.x = <<>> THEN <<>> ELSE AttrsOf(arg.x, 1, <<>>, FALSE)
            Has(k) == \E i \in 1..Len(as) : as[i][1] = k
            Val(k) == ValueOf(as[CHOOSE i \in 1..Len(as) : as[i][1] = k])
        IN /\ Len(ret.attrs) = Len(as)
           /\ \A i \in 1..Len(as) : AttrGet(ret.attrs, as[i][1]) = ValueOf(as[i])
           /\ ret.bandwidth = IF Has("AVERAGE-BANDWIDTH") THEN AttrInt(Val("AVERAGE-BANDWIDTH"))
                              ELSE IF Has("BANDWIDTH") THEN AttrInt(Val("BANDWIDTH"))
                              ELSE 0

(***************************************************************************)
(* Properties of estimate_bitrate_mbps and guess_resolution_from_bitrate   *)
(* (SpecUtils)                                                             *)
(***************************************************************************)
\* The sampled segments whose HEAD request produced a non-zero size
SizedSamples(segments) ==
    {i \in 1..Len(segments) : i <= sample_n /\ head_size(segments[i][2]) > 0}

RECURSIVE SumBytes(_, _)
SumBytes(segments, I) ==
    IF I = {} THEN 0
    ELSE LET i == CHOOSE x \in I : TRUE
         IN head_size(segments[i][2]) + SumBytes(segments, I \ {i})

RECURSIVE SumSeconds(_, _)
SumSeconds(segments, I) ==
    IF I = {} THEN 0
    ELSE LET i == CHOOSE x \in I : TRUE
         IN segments[i][1] + SumSeconds(segments, I \ {i})

Ladder == << <<4500000, "1920x1080">>, <<2500000, "1280x720">>, <<1200000, "854x480">>,
             <<800000, "640x360">>, <<450000, "426x240">>, <<0, "256x144">> >>

\* C29: guess_resolution_from_bitrate returns 1920x1080 at or above 4.5
\* Mbps, else 1280x720 at or above 2.5, else 854x480 at or above 1.2, else
\* 640x360 at or above 0.8, else 426x240 at or above 0.45, else 256x144, and
\* None for None; it is consulted for a row only when the variant declares
\* no resolution, and a declared resolution is the resolution of the row.
C29_LadderOnlyWithoutResolution ==
    Returned("guess_resolution_from_bitrate") =>
        /\ ret.consulted <=> arg.x.resolution = ""
        /\ ~ret.consulted => ret.resolution = arg.x.resolution /\ ret.guessed = ""
        /\ (ret.consulted /\ ret.mbps = -1) => ret.guessed = "" /\ ret.resolution = "N/A"
        /\ (ret.consulted /\ ret.mbps # -1) =>
              /\ ret.resolution = ret.guessed
              /\ \E k \in 1..Len(Ladder) :
                    /\ ret.guessed = Ladder[k][2]
                    /\ ret.mbps >= Ladder[k][1]
                    /\ \A j \in 1..(k - 1) : ret.mbps < Ladder[j][1]

\* A variant without bandwidth and resolution whose estimate is exactly 4.5
\* Mbps has the resolution 1920x1080.
C29_Witness ==
    /\ Returned("guess_resolution_from_bitrate")
    /\ arg.x = [bandwidth |-> 0, resolution |-> "", est |-> 4500000]
    /\ ret.consulted
    /\ ret.resolution = "1920x1080"

(***************************************************************************)
(* Properties of the URL helpers of m3u8_sniffer_utils.py (SpecUtils)      *)
(***************************************************************************)
\* C24: clean_m3u8_url is idempotent, also for URLs with nested percent-
\* encoding or a base64-encoded URL in a parameter: cleaning a cleaned URL
\* gives the same URL.
C24_CleanIdempotent ==
    Returned("clean_m3u8_url") => ret.twice = ret.once

\* C25: when no base64 replacement applies, clean_m3u8_url removes exactly
\* the query parameters whose key is in the tracking set: the other
\* parameters keep key, value and relative position, and host, path and
\* fragment are those of the original URL.
C25_OnlyTrackingRemoved ==
    (Returned("clean_m3u8_url") /\ \A i \in 1..Len(arg.x.query) : arg.x.query[i][2] \notin B64Values) =>
        /\ ret.once.query = SelectSeq(arg.x.query, LAMBDA kv : kv[1] \notin SPAM_QUERY_PARAMS)
        /\ ret.once.host = arg.x.host
        /\ ret.once.path = arg.x.path
        /\ ret.once.frag = arg.x.frag

\* The URL has a path segment "entryId" / "flavorId"
HasSegment(u, seg) == \E i \in 1..Len(u.path) : u.path[i] = seg

\* C26: detect_master_vs_variant is false for every URL with both an entryId
\* and a flavorId segment, and true for every URL with an entryId segment and
\* no flavorId segment.
C26_FlavorMeansVariant ==
    Returned("detect_master_vs_variant") =>
        /\ (HasSegment(arg.x, "entryId") /\ HasSegment(arg.x, "flavorId")) => ret = FALSE
        /\ (HasSegment(arg.x, "entryId") /\ ~HasSegment(arg.x, "flavorId")) => ret = TRUE

\* C26 as the code has it: a URL that contains "entryid" and nowhere
\* "flavorid" (case-insensitive) is a master; one that contains both is a
\* master exactly when an earlier rule says so: "playmanifest" with
\* "kaltura", or one of the names master.m3u8, manifest.m3u8, playlist.m3u8.
C26_FlavorMeansVariantUnlessNamedMaster ==
    Returned("detect_master_vs_variant") =>
        /\ (HasSegLower(arg.x, "entryid") /\ ~HasSegLower(arg.x, "flavorid")) => ret = TRUE
        /\ (HasSegLower(arg.x, "entryid") /\ HasSegLower(arg.x, "flavorid")) =>
              ret = (\/ HasPlaymanifestLower(arg.x) /\ HasKalturaLower(arg.x)
                     \/ \E i \in 1..Len(arg.x.path) :
                           arg.x.path[i] \in {"master.m3u8", "manifest.m3u8", "playlist.m3u8"})

\* A play-manifest URL of the vendor that names an entry and a flavor has
\* been classified as a master.
C26_Witness ==
    /\ Returned("detect_master_vs_variant")
    /\ HasSegment(arg.x, "entryId") /\ HasSegment(arg.x, "flavorId")
    /\ HasPlaymanifestLower(arg.x)
    /\ ret = TRUE

\* C27: the classification functions are total: called with None (or with an
\* empty or malformed URL) each of them returns a value and never raises.
C27_ClassificationTotal ==
    Returned("None") => ret \notin {"AttributeError", "TypeError"}

\* The identifier after the path segment seg, when seg and the identifier are
\* both followed by "/" ("": there is no such segment)
IdAfter(u, seg) ==
    LET I == {i \in 1..(Len(u.path) - 2) : u.path[i] = seg}
    IN IF I = {} THEN "" ELSE u.path[(CHOOSE i \in I : \A j \in I : i <= j) + 1]

\* C28: entryId and flavorId are extracted independently: a URL with a path
\* segment /entryId/<id>/ gives <id> whether or not it has a flavorId
\* segment, and likewise for flavorId; extract_ids and extract_kaltura_ids
\* return the same pair for every URL.
C28_ExtractorsAgree ==
    Returned("extract_ids") =>
        /\ ret.app = ret.utils
        /\ IdAfter(arg.x, "entryId") # "" =>
              ret.app[1] = IdAfter(arg.x, "entryId") /\ ret.utils[1] = IdAfter(arg.x, "entryId")
        /\ IdAfter(arg.x, "flavorId") # "" =>
              ret.app[2] = IdAfter(arg.x, "flavorId") /\ ret.utils[2] = IdAfter(arg.x, "flavorId")

\* C30: is_m3u8_url is true for a URL whose path ends in ".m3u8", with or
\* without a query string after it (the file names master.m3u8,
\* manifest.m3u8, playlist.m3u8 and index.m3u8 among them), and false for
\* every other URL and for the empty URL.
C30_ManifestPathOnly ==
    Returned("is_m3u8_url") =>
        ret = (arg.x # NoUrl /\ Len(arg.x.path) > 0 /\ Last(arg.x.path) \in M3u8Files)

(***************************************************************************)
(* Properties of the hand-over from capture to parsing (Spec)              *)
(***************************************************************************)
\* The master of the parsing stage has been chosen (app.py 864-870 are done)
MasterChosen == pc \in {"list", "direct", "analyze"} \/ (pc = "done" /\ errorAt # "wire")

\* C31: the master URL the capture stage reports is the one the playlist
\* parser uses: when it is not None, the variant listing is attempted from
\* that URL.
C31_ParserUsesCapturedMaster ==
    (MasterChosen /\ master_manifest_url # NoUrl) => master = master_manifest_url

\* C32: a partial capture result proceeds to parsing: when the capture stage
\* returns no master URL but at least one playlist URL, process_single_url
\* submits at least one captured URL to variant analysis before it ends.
C32_PartialCaptureAnalysed ==
    (pc = "done" /\ errorAt # "wire" /\ master_manifest_url = NoUrl /\ found_m3u8 # {})
        => analysed # <<>>

(***************************************************************************)
(* Properties of the browser managers and of reused sessions (SpecSession) *)
(***************************************************************************)
\* C33: sessions run one after the other on one reused manager are
\* self-contained: every manifest a session reports was observed in a
\* response that occurred during that session, never in a response of a page
\* processed earlier on the same driver or browser.
C33_ReportedInOwnSession ==
    opc = "returned" => UrlsOf(found_m3u8s) \subseteq occurred

\* C35: a browser the capture call launched itself is shut down when the call
\* returns or raises, on every path, while a manager supplied by the caller is
\* not stopped by the call and stays usable for the next URL.
C35_OwnBrowserStopped ==
    /\ (own_manager /\ opc \in {"returned", "raised"}) => ~browserUp
    /\ (~own_manager /\ opc = "returned") => (browserUp /\ HoldsBrowser(backend, held))

\* C36: a start() that raised leaves the manager not started: it holds no
\* browser, driver or playwright handle, no launched process keeps running,
\* and a later get_browser() / get_driver() starts afresh.
C36_FailedStartLeavesNothing ==
    opc = "raised" => (held = {} /\ ~browserUp /\ ~HoldsBrowser(backend, held))

(***************************************************************************)
(* Properties of the choice of the master (Spec)                           *)
(***************************************************************************)
\* C34: the same captured set gives the same master: when process_single_url
\* is about to choose the master, only one outcome of the choice is possible,
\* whatever the iteration order of the set.
C34_MasterChoiceDetermined ==
    pc = "parse" =>
        \A u1, u2 \in found_m3u8 :
            (ENABLED (FindMaster /\ master' = u1) /\ ENABLED (FindMaster /\ master' = u2))
                => u1 = u2

(***************************************************************************)
(* Properties of the route handler (SpecUtils)                             *)
(***************************************************************************)
\* C37: resource blocking never aborts a manifest request: every intercepted
\* request is resolved exactly once, by abort or by continue, and a request
\* whose URL is a manifest URL is continued whatever its resource type.
C37_ManifestNeverAborted ==
    Returned("on_route") =>
        /\ Len(ret) = 1
        /\ ret[1] \in {"abort", "continue_"}
        /\ is_m3u8_url(arg.x.url) => ret = <<"continue_">>

(***************************************************************************)
(* Properties of the candidate list (Spec)                                 *)
(***************************************************************************)
\* The variants analysed without an exception.
AnalysedOk == {i \in 1..Len(analysed) : analysed[i] = "ok"}

\* C38: disambiguation never empties the candidate list: when at least one
\* variant was analysed successfully, the list that remains after the entry
\* disambiguation and the sort is not empty and process_single_url does not
\* end with the no-variants error.
C38_SomeCandidateRemains ==
    (pc = "done" /\ errorAt \notin {"wire", "master"} /\ AnalysedOk # {})
        => (rows # <<>> /\ result = "ok" /\ errorAt # "novariants")

\* The disambiguation has removed the rows of another entry and left some.
C38_Witness ==
    /\ pc = "done"
    /\ dur_by_entry # <<>>
    /\ rows # <<>>
    /\ Len(rows) < Cardinality(AnalysedOk)

(***************************************************************************)
(* Properties of run_batch (SpecBatch)                                     *)
(***************************************************************************)
\* The positions in es of the events of type t of worker i.
EventsOf(es, i, t) == {k \in 1..Len(es) : es[k].index = i /\ es[k].type = t}

\* C39: whatever the interleaving of the workers with the draining generator,
\* the stream of a finished run_batch holds, for every submitted URL, exactly
\* one result event, which comes after that URL's title event; it holds every
\* event a worker has put on the queue; its one done event comes after all
\* the others; and at no time more than max(1, concurrency) workers run.
C39_OneResultPerUrl ==
    /\ Cardinality(Running(wpc)) <= (IF concurrency > 1 THEN concurrency ELSE 1)
    /\ gpc = "end" =>
         /\ \A i \in Workers :
              /\ Cardinality(EventsOf(emitted, i, "result")) = 1
              /\ \E t \in EventsOf(emitted, i, "title") :
                   \A r \in EventsOf(emitted, i, "result") : t < r
         /\ q_events = <<>>
         /\ emitted = Append(puts, DoneEvent)
         /\ \A k \in 1..Len(puts) : puts[k].type # "done"

\* A finished batch of MaxUrls URLs in which a worker fell back to Selenium,
\* and two workers ran at the same time (the result of the second URL was
\* yielded before the one of the first).
C39_Witness ==
    /\ gpc = "end"
    /\ Len(wpc) = MaxUrls
    /\ \E k \in 1..Len(emitted) : emitted[k].by = "fallback"
    /\ \E a \in EventsOf(emitted, 1, "result") : \E b \in EventsOf(emitted, 2, "result") : b < a
    /\ alive = FALSE

====
